---- MODULE Spec2Model ----
(***************************************************************************)
(* State-machine model of the smart-farm dashboard: the sensor history     *)
(* store (src/src/utils/dataHistory.ts, class DataHistoryManager) with the *)
(* localStorage entry and the debounce timer it works with, the MQTT topic *)
(* tree (src/src/utils/mqttTreeParser.ts), and the path of a message from  *)
(* useMqtt's handler through the dashboard's message effect to the tree.   *)
(*                                                                         *)
(* Encodings                                                               *)
(*  - A JavaScript string is a sequence of one-character strings; a        *)
(*    Hangul syllable is written as its code point ("U+C628").             *)
(*  - A finite JavaScript number is an integer counting tenths, so 23.5 is *)
(*    235 and the literal 80 of the source is Tenths(80).  NaN, Infinity,  *)
(*    -Infinity and a value of type string are integer codes outside the   *)
(*    finite range; the Js* operators give them JavaScript's semantics.    *)
(*  - Time is in milliseconds.                                             *)
(***************************************************************************)
EXTENDS Integers, Sequences, FiniteSets, TLC

VARIABLES
    history,      \* this.history when it is an object: cardId -> points
    histKind,     \* what this.history is: "object", "null" or "number"
    saveTimeout,  \* this.saveTimeout: 0 (undefined) or the id of the last timer created
    timers,       \* the event loop's pending timeouts: a set of [id, due]
    timerSeq,     \* ids handed out by setTimeout so far
    storage,      \* localStorage's entry under STORAGE_KEY
    now,          \* Date.now()
    ret,          \* the step just taken: operation, arguments, outcome, returned value
    accepted,     \* history variable: per series, the points accepted since it was last empty
    scheduledAt,  \* history variable: Date.now() of the last call of saveHistory
    vIn,          \* validator check: the arguments of isValidSensorValue
    vOut,         \* validator check: its result, or "pending"
    tree,         \* MqttTreeParser.root and its descendants: chain of keys -> node
    treeStep,     \* the parser's method just called, with its message
    published,    \* history variable: the messages added since the last clear
    msgCount,     \* the messages created so far; the next one's timestamp
    messagesRef,  \* useMqtt: messagesRef.current
    messages,     \* useMqtt: the state last given to setMessages
    effectDue,    \* the dashboard's message effect has a changed dependency to run for
    isInitializing,        \* dashboard state
    hasReceivedRealData,   \* dashboard state
    sensorData,            \* dashboard state
    selectedTimeRange,     \* ChartView state
    selectedCards,         \* ChartView state
    dataAveraging,         \* ChartView state
    averagingMethod,       \* ChartView state
    chartData,             \* what getChartData returned in the last render
    cards,                 \* dashboard state: the card configurations
    mounted,               \* the dashboard is mounted
    intervals,             \* the event loop's active setInterval timers
    intervalSeq,           \* ids handed out by setInterval so far
    collectEffect,         \* the collection effect's last run: its dependencies, its interval
    arrivedInitializing,   \* history variable: the messages that arrived while isInitializing
    chartMounted,          \* ChartView is mounted
    refreshInterval,       \* ChartView state
    refreshEffect          \* ChartView's refresh effect's last run

vars == <<history, histKind, saveTimeout, timers, timerSeq, storage, now, ret,
          accepted, scheduledAt, vIn, vOut, tree, treeStep, published, msgCount,
          messagesRef, messages, effectDue, isInitializing, hasReceivedRealData,
          sensorData, selectedTimeRange, selectedCards, dataAveraging,
          averagingMethod, chartData, cards, mounted, intervals, intervalSeq,
          collectEffect, arrivedInitializing, chartMounted, refreshInterval,
          refreshEffect>>

storeVars == <<history, histKind, saveTimeout, timers, timerSeq, storage, now, ret,
               accepted, scheduledAt>>

validatorVars == <<vIn, vOut>>

treeVars == <<tree, treeStep, published, msgCount>>

dashboardVars == <<messagesRef, messages, effectDue, isInitializing,
                   hasReceivedRealData, sensorData>>

chartVars == <<selectedTimeRange, selectedCards, dataAveraging, averagingMethod,
               chartData>>

collectorVars == <<cards, mounted, intervals, intervalSeq, collectEffect,
                   arrivedInitializing, chartMounted, refreshInterval, refreshEffect>>

-----------------------------------------------------------------------------
(* Strings *)

UpperCase == <<"A","B","C","D","E","F","G","H","I","J","K","L","M",
               "N","O","P","Q","R","S","T","U","V","W","X","Y","Z">>

LowerCase == <<"a","b","c","d","e","f","g","h","i","j","k","l","m",
               "n","o","p","q","r","s","t","u","v","w","x","y","z">>

ToLowerChar(ch) ==
    IF \E i \in 1..Len(UpperCase) : UpperCase[i] = ch
    THEN LowerCase[CHOOSE i \in 1..Len(UpperCase) : UpperCase[i] = ch]
    ELSE ch

\* String.prototype.toLowerCase
toLowerCase(s) == [i \in 1..Len(s) |-> ToLowerChar(s[i])]

\* String.prototype.includes
includes(s, sub) ==
    \E i \in 0..(Len(s) - Len(sub)) : SubSeq(s, i + 1, i + Len(sub)) = sub

\* The keywords of isValidSensorValue.
KwOndo == <<"U+C628", "U+B3C4">>
KwTemp == <<"t","e","m","p">>
KwTemperature == <<"t","e","m","p","e","r","a","t","u","r","e">>
KwSeupdo == <<"U+C2B5", "U+B3C4">>
KwHumid == <<"h","u","m","i","d">>
KwHumidity == <<"h","u","m","i","d","i","t","y">>
KwToyang == <<"U+D1A0", "U+C591">>
KwSubun == <<"U+C218", "U+BD84">>
KwSoil == <<"s","o","i","l">>
KwMoisture == <<"m","o","i","s","t","u","r","e">>
KwJodo == <<"U+C870", "U+B3C4">>
KwGwangryang == <<"U+AD11", "U+B7C9">>
KwLight == <<"l","i","g","h","t">>
KwLux == <<"l","u","x">>
KwCo2 == <<"c","o","2">>
KwIsanhwatanso == <<"U+C774", "U+C0B0", "U+D654", "U+D0C4", "U+C18C">>

-----------------------------------------------------------------------------
(* Numbers *)

Tenths(n) == 10 * n

PosInfinity == 2^30
NegInfinity == -(2^30)
NaN == 2^30 + 1
\* The string "25", a value whose typeof is not "number".
NumericString == 2^30 + 2

\* typeof value === 'number'
IsNumberType(v) == v # NumericString

\* ToNumber, applied by isNaN, isFinite and the relational operators.
ToNumber(v) == IF v = NumericString THEN Tenths(25) ELSE v

\* The global isNaN and isFinite.
isNaN(v) == ToNumber(v) = NaN
isFinite(v) == ToNumber(v) \notin {NaN, PosInfinity, NegInfinity}

\* value >= c, value <= c, value > c for a finite literal c: false on NaN.
JsGe(v, c) == ToNumber(v) # NaN /\ ToNumber(v) >= c
JsLe(v, c) == ToNumber(v) # NaN /\ ToNumber(v) <= c
JsGt(v, c) == ToNumber(v) # NaN /\ ToNumber(v) > c
\* value !== c: strict, no conversion.
JsStrictNe(v, c) == v # c

Abs(a) == IF a < 0 THEN -a ELSE a

-----------------------------------------------------------------------------
(* DataHistoryManager.isValidSensorValue *)

IsTemperature(cardId, titleLower) ==
    includes(titleLower, KwOndo) \/ includes(titleLower, KwTemp)
        \/ includes(cardId, KwTemperature)

IsHumidity(cardId, titleLower) ==
    includes(titleLower, KwSeupdo) \/ includes(titleLower, KwHumid)
        \/ includes(cardId, KwHumidity)

IsSoilMoisture(titleLower) ==
    includes(titleLower, KwToyang) \/ includes(titleLower, KwSubun)
        \/ includes(titleLower, KwSoil) \/ includes(titleLower, KwMoisture)

IsIlluminance(titleLower) ==
    includes(titleLower, KwJodo) \/ includes(titleLower, KwGwangryang)
        \/ includes(titleLower, KwLight) \/ includes(titleLower, KwLux)

IsCo2(titleLower) ==
    includes(titleLower, KwCo2) \/ includes(titleLower, KwIsanhwatanso)

\* The branch isValidSensorValue takes: the first that matches, in source order.
SensorCategory(cardId, cardTitle) ==
    LET titleLower == toLowerCase(cardTitle) IN
    IF IsTemperature(cardId, titleLower) THEN "temperature"
    ELSE IF IsHumidity(cardId, titleLower) THEN "humidity"
    ELSE IF IsSoilMoisture(titleLower) THEN "soil"
    ELSE IF IsIlluminance(titleLower) THEN "illuminance"
    ELSE IF IsCo2(titleLower) THEN "co2"
    ELSE "other"

isValidSensorValue_ZeroAccepted(cardId, value, cardTitle) ==
    LET category == SensorCategory(cardId, cardTitle) IN
    CASE category = "temperature" ->
            JsGe(value, Tenths(-50)) /\ JsLe(value, Tenths(80))
      [] category = "humidity" ->
            JsGe(value, 0) /\ JsLe(value, Tenths(100))
      [] category = "soil" ->
            JsGe(value, 0) /\ JsLe(value, Tenths(100))
      [] category = "illuminance" ->
            JsGe(value, 0) /\ JsLe(value, Tenths(200000))
      [] category = "co2" ->
            JsGe(value, Tenths(300)) /\ JsLe(value, Tenths(5000))
      [] OTHER ->
            JsGe(value, Tenths(-1000000)) /\ JsLe(value, Tenths(1000000))

isValidSensorValue(cardId, value, cardTitle) ==
    LET category == SensorCategory(cardId, cardTitle) IN
    CASE category = "temperature" ->
            JsGe(value, Tenths(-50)) /\ JsLe(value, Tenths(80)) /\ JsStrictNe(value, 0)
      [] category = "humidity" ->
            JsGt(value, 0) /\ JsLe(value, Tenths(100))
      [] category = "soil" ->
            JsGt(value, 0) /\ JsLe(value, Tenths(100))
      [] category = "illuminance" ->
            JsGe(value, 0) /\ JsLe(value, Tenths(200000))
      [] category = "co2" ->
            JsGe(value, Tenths(300)) /\ JsLe(value, Tenths(5000))
      [] OTHER ->
            JsStrictNe(value, 0) /\ JsGe(value, Tenths(-1000000))
                /\ JsLe(value, Tenths(1000000))

-----------------------------------------------------------------------------
(* Bounds and inputs of the store *)

\* MAX_HISTORY_POINTS is 1000 in the source; the model keeps the code and
\* shrinks the number so that eviction happens within the bounds.
MAX_HISTORY_POINTS == 2
\* setTimeout's delay in saveHistory.
SAVE_DELAY == 1000
\* saveHistory is called at most MaxTimers times in a run.
MaxTimers == 3
\* The clock advances at most MaxTicks times, by half the debounce delay each
\* (MaxQueryTicks times in the queries' runs).
MaxTicks == 3
MaxQueryTicks == 2

TickMs == SAVE_DELAY \div 2

EmptyString == << >>
IdTemp1 == <<"t","e","m","p","-","1">>
IdCard2 == <<"c","a","r","d","-","2">>
TitlePh == <<"p","H">>
UnitC == <<"C">>

\* The cards addDataPoint is called for: (card.id, card.title, card.unit).
CardRefs ==
    { [id |-> IdTemp1, title |-> KwOndo, unit |-> UnitC],
      [id |-> IdCard2, title |-> TitlePh, unit |-> EmptyString],
      [id |-> EmptyString, title |-> TitlePh, unit |-> EmptyString] }

\* The cards with an id.
QueryCards == {c \in CardRefs : c.id # EmptyString}
QueryCardIds == {c.id : c \in QueryCards}

Statuses == {"low", "normal", "warning", "danger"}

CardOf(cardId) == CHOOSE c \in CardRefs : c.id = cardId

MalformedValues == {NaN, PosInfinity, NumericString}

\* The samples of the store's runs: 23.5 for either card and for a card without
\* id, 90 (plausible for the generic card only) for either card, and one
\* malformed value each.
StoreSamples ==
    { [card |-> c, value |-> 235, status |-> "normal"] : c \in CardRefs }
    \cup { [card |-> c, value |-> Tenths(90), status |-> "normal"] : c \in QueryCards }
    \cup { [card |-> CardOf(IdTemp1), value |-> NaN, status |-> "normal"],
           [card |-> CardOf(IdCard2), value |-> PosInfinity, status |-> "normal"],
           [card |-> CardOf(IdCard2), value |-> NumericString, status |-> "normal"] }

\* The samples of the queries' runs: a plausible one for the temperature card, two
\* for the generic card, and 0, which is plausible for neither.
QuerySamples ==
    { [card |-> c, value |-> 235, status |-> "normal"] : c \in QueryCards }
    \cup { [card |-> c, value |-> Tenths(90), status |-> "warning"] :
              c \in {c \in QueryCards : c.id = IdCard2} }
    \cup { [card |-> c, value |-> 0, status |-> "low"] : c \in QueryCards }

\* timeRange omitted.
Undefined == 2^30 + 3
TimeRanges == {Undefined, 0, TickMs}

\* !timeRange
IsFalsy(timeRange) == timeRange \in {Undefined, 0, NaN}

-----------------------------------------------------------------------------
(* Values *)

EmptyHistory == [c \in {} |-> << >>]

\* History h with series cardId set to points (created if absent).
WithSeries(h, cardId, points) ==
    [c \in DOMAIN h \cup {cardId} |-> IF c = cardId THEN points ELSE h[c]]

\* delete h[cardId]
WithoutSeries_Kept(h, cardId) == h

WithoutSeries(h, cardId) == [c \in DOMAIN h \ {cardId} |-> h[c]]

\* Array.prototype.slice(-n)
SliceLast(s, n) == IF Len(s) <= n THEN s ELSE SubSeq(s, Len(s) - n + 1, Len(s))

NoTimer == 0

\* What a call without a result returns.
Void == [void |-> TRUE]

\* The step just taken: the operation, its arguments (the card id and the value or
\* the time range), how it ended, what it wrote to the console, what it returned.
Return(op, args, log, value) ==
    [op |-> op, args |-> args, outcome |-> "return", log |-> log, value |-> value]

Throw(op, args, error) ==
    [op |-> op, args |-> args, outcome |-> "throw", log |-> "none",
     value |-> [thrown |-> error]]

\* The decimal digits, and a natural number in decimal.
Digits == <<"0","1","2","3","4","5","6","7","8","9">>

RECURSIVE NatToString(_)
NatToString(n) ==
    IF n < 10 THEN <<Digits[n + 1]>>
    ELSE NatToString(n \div 10) \o <<Digits[(n % 10) + 1]>>

DigitValue(ch) == (CHOOSE i \in 1..Len(Digits) : Digits[i] = ch) - 1

RECURSIVE StringToNat(_)
StringToNat(s) ==
    IF s = << >> THEN 0
    ELSE 10 * StringToNat(SubSeq(s, 1, Len(s) - 1)) + DigitValue(s[Len(s)])

JsonNull == <<"n","u","l","l">>
\* The value null.
Null == 2^30 + 4

\* JSON.stringify of a number (counted in tenths): the shortest decimal, null for
\* NaN and the infinities.
NumberToJson_Integer(v) ==
    (IF v < 0 THEN <<"-">> ELSE << >>) \o NatToString(Abs(v) \div 10)

NumberToJson(v) ==
    IF v \in {NaN, PosInfinity, NegInfinity} THEN JsonNull
    ELSE (IF v < 0 THEN <<"-">> ELSE << >>)
            \o NatToString(Abs(v) \div 10)
            \o (IF Abs(v) % 10 = 0 THEN << >> ELSE <<".", Digits[(Abs(v) % 10) + 1]>>)

\* JSON.parse of the text of a number or of null, in tenths.
JsonToNumber(text) ==
    IF text = JsonNull THEN Null
    ELSE LET negative == text[1] = "-"
             body == IF negative THEN Tail(text) ELSE text
             dot == IF \E i \in 1..Len(body) : body[i] = "."
                    THEN CHOOSE i \in 1..Len(body) : body[i] = "."
                    ELSE Len(body) + 1
             fraction == SubSeq(body, dot + 1, Len(body))
             magnitude == 10 * StringToNat(SubSeq(body, 1, dot - 1))
                             + (IF fraction = << >> THEN 0 ELSE DigitValue(fraction[1]))
         IN  IF negative THEN -magnitude ELSE magnitude

\* JSON.stringify of a string: quoted, with the quote and the backslash escaped;
\* JSON.parse of such a text.
RECURSIVE Escape(_)
Escape(s) ==
    IF s = << >> THEN << >>
    ELSE (IF Head(s) \in {"\"", "\\"} THEN <<"\\", Head(s)>> ELSE <<Head(s)>>)
            \o Escape(Tail(s))

RECURSIVE Unescape(_)
Unescape(s) ==
    IF s = << >> THEN << >>
    ELSE IF Head(s) = "\\" THEN <<s[2]>> \o Unescape(Tail(Tail(s)))
    ELSE <<Head(s)>> \o Unescape(Tail(s))

StringToJson(s) == <<"\"">> \o Escape(s) \o <<"\"">>

JsonToString(text) == Unescape(SubSeq(text, 2, Len(text) - 1))

\* The characters of a status label.
StatusChars(status) ==
    CASE status = "low" -> <<"l","o","w">>
      [] status = "normal" -> <<"n","o","r","m","a","l">>
      [] status = "warning" -> <<"w","a","r","n","i","n","g">>
      [] status = "danger" -> <<"d","a","n","g","e","r">>

StatusOfChars(chars) ==
    CHOOSE status \in {"low", "normal", "warning", "danger"} :
        StatusChars(status) = chars

\* A data point as JSON text, member by member, and back.
PointToJson(point) ==
    [timestamp |-> NumberToJson(Tenths(point.timestamp)),
     value |-> NumberToJson(point.value),
     status |-> StringToJson(StatusChars(point.status)),
     cardId |-> StringToJson(point.cardId),
     cardTitle |-> StringToJson(point.cardTitle),
     unit |-> StringToJson(point.unit)]

JsonToPoint(json) ==
    [timestamp |-> JsonToNumber(json.timestamp) \div 10,
     value |-> JsonToNumber(json.value),
     status |-> StatusOfChars(JsonToString(json.status)),
     cardId |-> JsonToString(json.cardId),
     cardTitle |-> JsonToString(json.cardTitle),
     unit |-> JsonToString(json.unit)]

\* JSON.stringify(this.history): an object gives the text of its series, key by
\* key; null and a number give their own text.
Stringify(kind, h) ==
    IF kind = "object"
    THEN [kind |-> "object",
          data |-> [key \in {StringToJson(c) : c \in DOMAIN h} |->
                       [i \in 1..Len(h[JsonToString(key)]) |->
                           PointToJson(h[JsonToString(key)][i])]]]
    ELSE [kind |-> kind, data |-> EmptyHistory]

\* JSON.parse of the text of an object of series.
Parse(data) ==
    [c \in {JsonToString(key) : key \in DOMAIN data} |->
        [i \in 1..Len(data[StringToJson(c)]) |-> JsonToPoint(data[StringToJson(c)][i])]]

Absent == [kind |-> "absent", data |-> EmptyHistory]

\* The history an earlier page has saved: one temperature point.
SavedHistory ==
    [c \in {IdTemp1} |->
        << [timestamp |-> 0, value |-> 235, status |-> "normal", cardId |-> IdTemp1,
            cardTitle |-> KwOndo, unit |-> UnitC] >>]

\* What localStorage may hold when the page is first loaded.
InitialStorage ==
    { [kind |-> k, data |-> EmptyHistory] :
        k \in {"absent", "unparsable", "null", "number"} }
    \cup {Stringify("object", SavedHistory)}

\* Unparsable text, the text null and the text of a number.
CorruptKinds == {"unparsable", "null", "number"}

-----------------------------------------------------------------------------
(* DataHistoryManager: constructor and loadHistory *)

\* this.history after loadHistory, as <<histKind, history>>.
LoadHistory(getItemThrows, stored) ==
    IF getItemThrows THEN <<"object", EmptyHistory>>
    ELSE CASE stored.kind = "absent" -> <<"object", EmptyHistory>>
           [] stored.kind = "unparsable" -> <<"object", EmptyHistory>>
           [] stored.kind = "object" -> <<"object", Parse(stored.data)>>
           [] OTHER -> <<stored.kind, EmptyHistory>>

LoadLog(getItemThrows, stored) ==
    IF getItemThrows \/ stored.kind = "unparsable" THEN "error-loading" ELSE "none"

\* The module is loaded: a fresh manager, no timers of an earlier page.
Construct(getItemThrows) ==
    LET loaded == LoadHistory(getItemThrows, storage) IN
    /\ histKind' = loaded[1]
    /\ history' = loaded[2]
    /\ accepted' = loaded[2]
    /\ saveTimeout' = NoTimer
    /\ timers' = {}
    /\ scheduledAt' = 0
    /\ ret' = Return("constructor", << >>, LoadLog(getItemThrows, storage), Void)
    /\ UNCHANGED <<storage, now, timerSeq>>

-----------------------------------------------------------------------------
(* DataHistoryManager.saveHistory and its timer callback *)

\* The pending timeouts after saveHistory: clearTimeout(this.saveTimeout), then
\* setTimeout(callback, 1000).
saveHistory_NoClearTimeout ==
    timers \cup {[id |-> timerSeq + 1, due |-> now + SAVE_DELAY]}

saveHistory ==
    { t \in timers : saveTimeout = NoTimer \/ t.id # saveTimeout }
        \cup {[id |-> timerSeq + 1, due |-> now + SAVE_DELAY]}

\* The rest of saveHistory's effect.
ScheduleFlush ==
    /\ timerSeq < MaxTimers
    /\ timers' = saveHistory
    /\ saveTimeout' = timerSeq + 1
    /\ timerSeq' = timerSeq + 1
    /\ scheduledAt' = now

\* The callback of timer t runs: localStorage.setItem(STORAGE_KEY,
\* JSON.stringify(this.history)) inside try/catch.
FlushTimer(t, setItemThrows) ==
    /\ t \in timers
    /\ now >= t.due
    /\ timers' = timers \ {t}
    /\ storage' = IF setItemThrows THEN storage ELSE Stringify(histKind, history)
    /\ ret' = Return("flush", << >>,
                     IF setItemThrows THEN "error-saving" ELSE "none", Void)
    /\ UNCHANGED <<history, histKind, saveTimeout, timerSeq, now, accepted, scheduledAt>>

-----------------------------------------------------------------------------
(* DataHistoryManager.addDataPoint *)

\* The guard of the first return.
IsInvalidDataPoint_TypeOnly(cardId, value) ==
    cardId = EmptyString \/ isNaN(value) \/ ~isFinite(value)

IsInvalidDataPoint(cardId, value) ==
    cardId = EmptyString \/ ~IsNumberType(value) \/ isNaN(value) \/ ~isFinite(value)

DataPoint(cardId, value, status, cardTitle, unit) ==
    [timestamp |-> now, value |-> value, status |-> status, cardId |-> cardId,
     cardTitle |-> cardTitle, unit |-> unit]

\* this.history[cardId] after the push and the trim.
PushAndTrim_NoTrim(points, dataPoint) == Append(points, dataPoint)

\* unshift in place of push.
PushAndTrim_Unshift(points, dataPoint) ==
    IF Len(points) + 1 > MAX_HISTORY_POINTS
    THEN SliceLast(<<dataPoint>> \o points, MAX_HISTORY_POINTS)
    ELSE <<dataPoint>> \o points

PushAndTrim_DropNewest(points, dataPoint) ==
    IF Len(points) + 1 > MAX_HISTORY_POINTS
    THEN SubSeq(Append(points, dataPoint), 1, MAX_HISTORY_POINTS)
    ELSE Append(points, dataPoint)

PushAndTrim(points, dataPoint) ==
    IF Len(Append(points, dataPoint)) > MAX_HISTORY_POINTS
    THEN SliceLast(Append(points, dataPoint), MAX_HISTORY_POINTS)
    ELSE Append(points, dataPoint)

SeriesOf(h, cardId) == IF cardId \in DOMAIN h THEN h[cardId] ELSE << >>

addDataPoint(cardId, value, status, cardTitle, unit) ==
    IF IsInvalidDataPoint(cardId, value) THEN
        /\ ret' = Return("addDataPoint", <<cardId, value>>, "invalid", Void)
        /\ UNCHANGED <<history, histKind, saveTimeout, timers, timerSeq, storage, now,
                       accepted, scheduledAt>>
    ELSE IF ~isValidSensorValue(cardId, value, cardTitle) THEN
        /\ ret' = Return("addDataPoint", <<cardId, value>>, "out-of-range", Void)
        /\ UNCHANGED <<history, histKind, saveTimeout, timers, timerSeq, storage, now,
                       accepted, scheduledAt>>
    ELSE IF histKind \in {"null", "number"} THEN
        \* null[cardId] throws; on a number the read gives undefined and the
        \* assignment of [] throws in strict mode.
        /\ ret' = Throw("addDataPoint", <<cardId, value>>, "TypeError")
        /\ UNCHANGED <<history, histKind, saveTimeout, timers, timerSeq, storage, now,
                       accepted, scheduledAt>>
    ELSE
        LET dataPoint == DataPoint(cardId, value, status, cardTitle, unit) IN
        /\ history' = WithSeries(history, cardId,
                                 PushAndTrim(SeriesOf(history, cardId), dataPoint))
        /\ accepted' = WithSeries(accepted, cardId,
                                  Append(SeriesOf(accepted, cardId), dataPoint))
        /\ ScheduleFlush
        /\ ret' = Return("addDataPoint", <<cardId, value>>, "none", Void)
        /\ UNCHANGED <<histKind, storage, now>>

-----------------------------------------------------------------------------
(* DataHistoryManager.clearHistory and clearCardHistory *)

\* this.history = {} and then localStorage.removeItem(STORAGE_KEY), outside any
\* try: what removeItem throws reaches the caller.
clearHistory(removeItemThrows) ==
    /\ history' = EmptyHistory
    /\ histKind' = "object"
    /\ accepted' = EmptyHistory
    /\ storage' = IF removeItemThrows THEN storage ELSE Absent
    /\ ret' = IF removeItemThrows
              THEN Throw("clearHistory", << >>, "DOMException")
              ELSE Return("clearHistory", << >>, "none", Void)
    /\ UNCHANGED <<saveTimeout, timers, timerSeq, now, scheduledAt>>

clearCardHistory(cardId) ==
    IF histKind = "null" THEN
        \* delete null[cardId] throws
        /\ ret' = Throw("clearCardHistory", <<cardId>>, "TypeError")
        /\ UNCHANGED <<history, histKind, saveTimeout, timers, timerSeq, storage, now,
                       accepted, scheduledAt>>
    ELSE
        /\ history' = WithoutSeries(history, cardId)
        /\ accepted' = WithoutSeries(accepted, cardId)
        /\ ScheduleFlush
        /\ ret' = Return("clearCardHistory", <<cardId>>, "none", Void)
        /\ UNCHANGED <<histKind, storage, now>>

-----------------------------------------------------------------------------
(* DataHistoryManager.getCardHistory and getAllHistory *)

\* points.filter(point => point.timestamp >= cutoffTime)
FilterSince(points, cutoffTime) ==
    SelectSeq(points, LAMBDA point : point.timestamp >= cutoffTime)

\* What getCardHistory returns when this.history can be indexed.
CardHistory(cardId, timeRange) ==
    LET cardHistory == SeriesOf(history, cardId) IN
    IF IsFalsy(timeRange) THEN cardHistory
    ELSE FilterSince(cardHistory, now - timeRange)

getCardHistory_Trimming(cardId, timeRange) ==
    /\ histKind = "object"
    /\ cardId \in DOMAIN history
    /\ history' = WithSeries(history, cardId, CardHistory(cardId, timeRange))
    /\ ret' = Return("getCardHistory", <<cardId, timeRange>>, "none",
                     [points |-> CardHistory(cardId, timeRange)])
    /\ UNCHANGED <<histKind, saveTimeout, timers, timerSeq, storage, now,
                   accepted, scheduledAt>>

getCardHistory(cardId, timeRange) ==
    /\ ret' = IF histKind = "null"
              THEN Throw("getCardHistory", <<cardId, timeRange>>, "TypeError")
              ELSE Return("getCardHistory", <<cardId, timeRange>>, "none",
                          [points |-> CardHistory(cardId, timeRange)])
    /\ UNCHANGED <<history, histKind, saveTimeout, timers, timerSeq, storage, now,
                   accepted, scheduledAt>>

\* What getAllHistory returns, as [kind, data]; it throws where AllHistoryThrows.
AllHistoryThrows(timeRange) == ~IsFalsy(timeRange) /\ histKind = "null"

AllHistory(timeRange) ==
    IF IsFalsy(timeRange) THEN [kind |-> histKind, data |-> history]
    ELSE [kind |-> "object",
          data |-> [cardId \in DOMAIN history |->
                        FilterSince(history[cardId], now - timeRange)]]

getAllHistory(timeRange) ==
    /\ ret' = IF AllHistoryThrows(timeRange)
              THEN Throw("getAllHistory", <<timeRange>>, "TypeError")
              ELSE Return("getAllHistory", <<timeRange>>, "none",
                          AllHistory(timeRange))
    /\ UNCHANGED <<history, histKind, saveTimeout, timers, timerSeq, storage, now,
                   accepted, scheduledAt>>

-----------------------------------------------------------------------------
(* DataHistoryManager.getStatistics and getStatusDistribution *)

RECURSIVE SumOf(_)
SumOf(values) == IF values = << >> THEN 0 ELSE Head(values) + SumOf(Tail(values))

RECURSIVE Gcd(_, _)
Gcd(a, b) == IF b = 0 THEN a ELSE Gcd(b, a % b)

\* The quotient num / den, den > 0, in lowest terms.
Quotient(num, den) ==
    LET g == Gcd(Abs(num), den) IN [num |-> num \div g, den |-> den \div g]

MinOf(values) == CHOOSE v \in {values[i] : i \in 1..Len(values)} :
                    \A i \in 1..Len(values) : v <= values[i]

MaxOf(values) == CHOOSE v \in {values[i] : i \in 1..Len(values)} :
                    \A i \in 1..Len(values) : v >= values[i]

\* Without the early return: Math.min() and Math.max() of nothing, 0 / 0 and
\* values[-1].
Statistics_NoEarlyReturn(cardId, timeRange) ==
    LET data == CardHistory(cardId, timeRange)
        values == [i \in 1..Len(data) |-> data[i].value]
    IN  IF Len(data) = 0
        THEN [min |-> PosInfinity, max |-> NegInfinity,
              average |-> [num |-> 0, den |-> 0], latest |-> Undefined, count |-> 0]
        ELSE [min |-> MinOf(values), max |-> MaxOf(values),
              average |-> Quotient(SumOf(values), Len(values)),
              latest |-> values[Len(values)], count |-> Len(data)]

Statistics(cardId, timeRange) ==
    LET data == CardHistory(cardId, timeRange)
        values == [i \in 1..Len(data) |-> data[i].value]
    IN  IF Len(data) = 0
        THEN [min |-> 0, max |-> 0, average |-> Quotient(0, 1), latest |-> 0,
              count |-> 0]
        ELSE [min |-> MinOf(values), max |-> MaxOf(values),
              average |-> Quotient(SumOf(values), Len(values)),
              latest |-> values[Len(values)], count |-> Len(data)]

getStatistics(cardId, timeRange) ==
    /\ ret' = IF histKind = "null"
              THEN Throw("getStatistics", <<cardId, timeRange>>, "TypeError")
              ELSE Return("getStatistics", <<cardId, timeRange>>, "none",
                          Statistics(cardId, timeRange))
    /\ UNCHANGED <<history, histKind, saveTimeout, timers, timerSeq, storage, now,
                   accepted, scheduledAt>>

\* Number of points of the sequence that carry the status.
CountStatus_All(points, status) == Len(points)

CountStatus(points, status) ==
    Len(SelectSeq(points, LAMBDA point : point.status = status))

RECURSIVE SumOver(_, _, _)
SumOver(h, cardIds, status) ==
    IF cardIds = {} THEN 0
    ELSE LET cardId == CHOOSE c \in cardIds : TRUE IN
         CountStatus(h[cardId], status) + SumOver(h, cardIds \ {cardId}, status)

StatusDistribution(timeRange) ==
    LET allHistory == AllHistory(timeRange).data IN
    [status \in Statuses |-> SumOver(allHistory, DOMAIN allHistory, status)]

\* Object.values(null) throws whether or not getAllHistory did.
getStatusDistribution(timeRange) ==
    /\ ret' = IF histKind = "null"
              THEN Throw("getStatusDistribution", <<timeRange>>, "TypeError")
              ELSE Return("getStatusDistribution", <<timeRange>>, "none",
                          StatusDistribution(timeRange))
    /\ UNCHANGED <<history, histKind, saveTimeout, timers, timerSeq, storage, now,
                   accepted, scheduledAt>>

-----------------------------------------------------------------------------
(* ChartView.getStatusDistributionData *)

NameLow == <<"U+B0AE", "U+C74C">>
NameNormal == <<"U+C815", "U+C0C1">>
NameWarning == <<"U+C8FC", "U+C758">>
NameDanger == <<"U+C704", "U+D5D8">>

\* The array before the filter (the colours are left out).
DistributionItems(distribution) ==
    << [name |-> NameLow, value |-> distribution["low"]],
       [name |-> NameNormal, value |-> distribution["normal"]],
       [name |-> NameWarning, value |-> distribution["warning"]],
       [name |-> NameDanger, value |-> distribution["danger"]] >>

getStatusDistributionData(timeRange) ==
    /\ ret' = IF histKind = "null"
              THEN Throw("getStatusDistributionData", <<timeRange>>, "TypeError")
              ELSE Return("getStatusDistributionData", <<timeRange>>, "none",
                          [items |-> SelectSeq(DistributionItems(StatusDistribution(timeRange)),
                                               LAMBDA item : item.value > 0)])
    /\ UNCHANGED <<history, histKind, saveTimeout, timers, timerSeq, storage, now,
                   accepted, scheduledAt>>

-----------------------------------------------------------------------------
(* MqttTreeParser (src/src/utils/mqttTreeParser.ts)                          *)
(*                                                                           *)
(* The tree is a function from a node's position, the chain of Map keys that *)
(* leads to it from the root, to the node's own fields; the keys of a node's *)
(* children Map are the last elements of the positions one longer than its   *)
(* own.  An optional field is << >> when undefined and <<x>> when set to x.  *)

Slash == "/"

\* String.prototype.split('/')
RECURSIVE split(_)
split(s) ==
    IF \E i \in 1..Len(s) : s[i] = Slash
    THEN LET i == CHOOSE i \in 1..Len(s) :
                     s[i] = Slash /\ \A j \in 1..(i - 1) : s[j] # Slash
         IN  <<SubSeq(s, 1, i - 1)>> \o split(SubSeq(s, i + 1, Len(s)))
    ELSE <<s>>

\* Array.prototype.join('/')
RECURSIVE join(_)
join(parts) ==
    IF parts = << >> THEN << >>
    ELSE IF Len(parts) = 1 THEN parts[1]
    ELSE parts[1] \o <<Slash>> \o join(Tail(parts))

\* message.topic.split('/').filter(part => part.length > 0)
TopicParts_Unfiltered(topic) == split(topic)

TopicParts(topic) == SelectSeq(split(topic), LAMBDA part : Len(part) > 0)

\* parts.slice(0, index + 1).join('/')
CurrentPath_LastPart(parts, index) == parts[index + 1]

CurrentPath(parts, index) == join(SubSeq(parts, 1, index + 1))

RootName == <<"r","o","o","t">>

RootNode == [name |-> RootName, path |-> EmptyString, value |-> << >>,
             lastUpdated |-> << >>, isEndpoint |-> FALSE]

\* The tree of the constructor and of clear(): the root alone.
EmptyTree == [position \in {<< >>} |-> RootNode]

\* The node that addToTree puts under a key that is not there yet.
NewNode_Endpoint(part, currentPath) ==
    [name |-> part, path |-> currentPath, value |-> << >>, lastUpdated |-> << >>,
     isEndpoint |-> TRUE]

NewNode(part, currentPath) ==
    [name |-> part, path |-> currentPath, value |-> << >>, lastUpdated |-> << >>,
     isEndpoint |-> FALSE]

IsPrefix(p, q) == Len(p) <= Len(q) /\ SubSeq(q, 1, Len(p)) = p

\* if (!node.children.has(part)) node.children.set(part, {...})
EnsureChild_Overwrite(t, child, node) ==
    [position \in {q \in DOMAIN t : ~IsPrefix(child, q)} \cup {child} |->
        IF position = child THEN node ELSE t[position]]

EnsureChild(t, child, node) ==
    IF child \in DOMAIN t THEN t
    ELSE [position \in DOMAIN t \cup {child} |->
              IF position = child THEN node ELSE t[position]]

\* The assignments of addToTree at the end of the parts.
Terminate_KeepFirst(node, message) ==
    IF node.isEndpoint THEN node
    ELSE [node EXCEPT !.value = <<message.message>>,
                      !.lastUpdated = <<message.timestamp>>,
                      !.isEndpoint = TRUE]

Terminate(node, message) ==
    [node EXCEPT !.value = <<message.message>>,
                 !.lastUpdated = <<message.timestamp>>,
                 !.isEndpoint = TRUE]

\* addToTree(node, parts, message, index), node being the one at position.
RECURSIVE addToTree(_, _, _, _, _)
addToTree(t, position, parts, message, index) ==
    IF index >= Len(parts)
    THEN [t EXCEPT ![position] = Terminate(t[position], message)]
    ELSE LET part == parts[index + 1]
             currentPath == CurrentPath(parts, index)
             child == Append(position, part)
         IN  addToTree(EnsureChild(t, child, NewNode(part, currentPath)),
                       child, parts, message, index + 1)

\* The tree after addMessage(message).
TreeAfter(t, message) == addToTree(t, << >>, TopicParts(message.topic), message, 0)

addMessage(message) ==
    /\ tree' = TreeAfter(tree, message)
    /\ published' = published \cup {message}
    /\ treeStep' = [op |-> "addMessage", message |-> message]

clear ==
    /\ tree' = EmptyTree
    /\ published' = {}
    /\ treeStep' = [op |-> "clear", message |-> << >>]

\* The keys of the children Map of the node at position.
ChildKeys(t, position) ==
    {q[Len(q)] : q \in {q \in DOMAIN t : Len(q) = Len(position) + 1
                                           /\ IsPrefix(position, q)}}

-----------------------------------------------------------------------------
(* The parser on its own: messages and clears in any order *)

MaxMessages == 3

TopicABC == <<"a","/","b","/","c">>
TopicABD == <<"a","/","b","/","d">>
TopicAB == <<"a","/","b">>
TopicSlashes == <<"/","/">>
TopicMessy == <<"/","a","/","/","b","/">>

TreeTopics == {TopicABC, TopicABD, TopicAB, EmptyString, TopicSlashes, TopicMessy}

PayloadOn == <<"o","n">>
Payload235 == <<"2","3",".","5">>

Payloads == {PayloadOn, Payload235}

TreeIdle ==
    /\ tree = EmptyTree
    /\ treeStep = [op |-> "constructor", message |-> << >>]
    /\ published = {}
    /\ msgCount = 0

-----------------------------------------------------------------------------
(* useMqtt's message handler and the dashboard's message effect              *)
(* (src/src/hooks/useMqtt.ts, src/src/components/SmartFarmDashboard.tsx)     *)

\* The longest prefix of s made of decimal digits.
RECURSIVE LeadingDigits(_)
LeadingDigits(s) ==
    IF s # << >> /\ \E i \in 1..Len(Digits) : Digits[i] = s[1]
    THEN <<s[1]>> \o LeadingDigits(Tail(s))
    ELSE << >>

\* parseFloat, in tenths: a sign, digits, a point and digits, whatever follows
\* being ignored; NaN without a digit.  Digits after the first decimal place are
\* dropped, the payloads of the model having none.
parseFloat(s) ==
    LET signed == s # << >> /\ s[1] \in {"-", "+"}
        body == IF signed THEN Tail(s) ELSE s
        whole == LeadingDigits(body)
        rest == SubSeq(body, Len(whole) + 1, Len(body))
        fraction == IF rest # << >> /\ rest[1] = "."
                    THEN LeadingDigits(Tail(rest)) ELSE << >>
        magnitude == 10 * StringToNat(whole)
                        + (IF fraction = << >> THEN 0 ELSE DigitValue(fraction[1]))
    IN  IF whole = << >> /\ fraction = << >> THEN NaN
        ELSE IF signed /\ s[1] = "-" THEN -magnitude ELSE magnitude

TopicTemperature ==
    <<"s","e","n","s","o","r","s","/","t","e","m","p","e","r","a","t","u","r","e">>
TopicHumidity ==
    <<"s","e","n","s","o","r","s","/","h","u","m","i","d","i","t","y">>
TopicSoilMoisture ==
    <<"s","e","n","s","o","r","s","/","s","o","i","l","-","m","o","i","s","t","u","r","e">>
TopicLightIntensity ==
    <<"s","e","n","s","o","r","s","/","l","i","g","h","t","-","i","n","t","e","n","s","i","t","y">>

\* isValidSensorData of the message effect.
IsValidSensorData(topic, value) ==
    CASE topic = TopicTemperature ->
            JsGe(value, Tenths(-50)) /\ JsLe(value, Tenths(80)) /\ JsStrictNe(value, 0)
      [] topic = TopicHumidity -> JsGt(value, 0) /\ JsLe(value, Tenths(100))
      [] topic = TopicSoilMoisture -> JsGt(value, 0) /\ JsLe(value, Tenths(100))
      [] topic = TopicLightIntensity ->
            JsGe(value, 0) /\ (JsGt(value, 0) \/ hasReceivedRealData)
      [] OTHER -> JsStrictNe(value, 0)

\* The updater given to setSensorData.
UpdatedSensorData(prev, latestMessage, value) ==
    LET updated == [prev EXCEPT !.lastUpdated = latestMessage.timestamp] IN
    CASE latestMessage.topic = TopicTemperature -> [updated EXCEPT !.temperature = value]
      [] latestMessage.topic = TopicHumidity -> [updated EXCEPT !.humidity = value]
      [] latestMessage.topic = TopicSoilMoisture ->
            [updated EXCEPT !.soilMoisture = value]
      [] latestMessage.topic = TopicLightIntensity ->
            [updated EXCEPT !.lightIntensity = value]
      [] OTHER -> updated

\* mqttClient.on('message', ...): the message gets the time of its arrival, is
\* pushed on messagesRef.current, and a copy of the array becomes the state.
OnMessage(topic, payload) ==
    /\ messagesRef' = Append(messagesRef, [topic |-> topic, message |-> payload,
                                           timestamp |-> msgCount + 1])
    /\ messages' = messagesRef'
    /\ msgCount' = msgCount + 1
    /\ effectDue' = TRUE
    /\ UNCHANGED <<tree, treeStep, published, isInitializing, hasReceivedRealData,
                   sensorData>>

\* The message effect, run by React after a render in which messages,
\* hasReceivedRealData or isInitializing has changed.
MessageEffect ==
    /\ effectDue
    /\ IF Len(messages) > 0
       THEN LET latestMessage == messages[Len(messages)]
                value == parseFloat(latestMessage.message)
                updates == /\ ~isNaN(value)
                             /\ isFinite(value)
                             /\ IsValidSensorData(latestMessage.topic, value)
                             /\ ~isInitializing
            IN  /\ hasReceivedRealData' = (hasReceivedRealData \/ updates)
                /\ sensorData' = IF updates
                                 THEN UpdatedSensorData(sensorData, latestMessage, value)
                                 ELSE sensorData
                /\ addMessage(latestMessage)
       ELSE UNCHANGED <<hasReceivedRealData, sensorData, tree, treeStep, published>>
    /\ effectDue' = (hasReceivedRealData' # hasReceivedRealData)
    /\ UNCHANGED <<messagesRef, messages, msgCount, isInitializing>>

\* The timer of the mount effect: setIsInitializing(false).
InitTimer ==
    /\ isInitializing
    /\ isInitializing' = FALSE
    /\ effectDue' = TRUE
    /\ UNCHANGED <<messagesRef, messages, msgCount, hasReceivedRealData, sensorData,
                   tree, treeStep, published>>

DashboardIdle ==
    /\ messagesRef = << >>
    /\ messages = << >>
    /\ effectDue = FALSE
    /\ isInitializing = TRUE
    /\ hasReceivedRealData = FALSE
    /\ sensorData = [temperature |-> 0, humidity |-> 0, soilMoisture |-> 0,
                     lightIntensity |-> 0, lastUpdated |-> 0]

-----------------------------------------------------------------------------
(* ChartView: the rows of the chart and their resampling                    *)
(*                                                                         *)
(* A number of the chart is a fraction of tenths in lowest terms, so that  *)
(* a mean is exact; the rounding of JavaScript's doubles is left out.  A   *)
(* row is the object of getChartData: its timestamp, the property cardId   *)
(* of each card that has one (value) and the property cardId_status        *)
(* (status).  The properties time and date are formatted from the          *)
(* timestamp and are left out.                                             *)

\* TIME_RANGES.HOUR and TIME_RANGES.DAY.
HOUR == 60 * 60 * 1000
DAY == 24 * 60 * 60 * 1000

Rat(n) == Quotient(n, 1)
RatAdd(a, b) == Quotient(a.num * b.den + b.num * a.den, a.den * b.den)
RatOver(a, n) == Quotient(a.num, a.den * n)
RatLess(a, b) == a.num * b.den < b.num * a.den

MathMax(a, b) == IF a >= b THEN a ELSE b
MathMin(a, b) == IF a <= b THEN a ELSE b

\* values.reduce((sum, val) => sum + val, 0)
RECURSIVE RatSum(_)
RatSum(values) ==
    IF values = << >> THEN Rat(0) ELSE RatAdd(Head(values), RatSum(Tail(values)))

\* values.reduce(...) / values.length
Mean(values) == RatOver(RatSum(values), Len(values))

\* values.sort((a, b) => a - b): a stable insertion sort.
RECURSIVE InsertNumber(_, _)
InsertNumber(sorted, v) ==
    IF sorted = << >> THEN <<v>>
    ELSE IF RatLess(v, Head(sorted)) THEN <<v>> \o sorted
    ELSE <<Head(sorted)>> \o InsertNumber(Tail(sorted), v)

RECURSIVE SortNumbers(_)
SortNumbers(values) ==
    IF values = << >> THEN << >>
    ELSE InsertNumber(SortNumbers(SubSeq(values, 1, Len(values) - 1)),
                      values[Len(values)])

\* The median as getMedianData computes it, with mid = Math.floor(length / 2)
\* counted from 0.
MedianOf_Unsorted(values) ==
    LET mid == Len(values) \div 2 IN
    IF Len(values) % 2 = 0
    THEN RatOver(RatAdd(values[mid], values[mid + 1]), 2)
    ELSE values[mid + 1]

MedianOf(values) ==
    LET sorted == SortNumbers(values)
        mid == Len(sorted) \div 2
    IN  IF Len(sorted) % 2 = 0
        THEN RatOver(RatAdd(sorted[mid], sorted[mid + 1]), 2)
        ELSE sorted[mid + 1]

NoCells == [c \in {} |-> 0]

Put(cells, cardId, v) ==
    [c \in DOMAIN cells \cup {cardId} |-> IF c = cardId THEN v ELSE cells[c]]

\* The object created for a timestamp that dataPointsMap does not have.
NewRow(timestamp) == [timestamp |-> timestamp, value |-> NoCells, status |-> NoCells]

\* dataPointsMap after one point of cardHistory: a Map keeps its keys in the
\* order of their creation.
SetPoint(dataPointsMap, cardId, point) ==
    LET created == IF \E i \in 1..Len(dataPointsMap) :
                          dataPointsMap[i].timestamp = point.timestamp
                   THEN dataPointsMap
                   ELSE Append(dataPointsMap, NewRow(point.timestamp))
        at == CHOOSE i \in 1..Len(created) : created[i].timestamp = point.timestamp
    IN  [created EXCEPT ![at] = [@ EXCEPT !.value = Put(@, cardId, Rat(point.value)),
                                          !.status = Put(@, cardId, point.status)]]

RECURSIVE SetPoints(_, _, _)
SetPoints(dataPointsMap, cardId, cardHistory) ==
    IF cardHistory = << >> THEN dataPointsMap
    ELSE SetPoints(SetPoint(dataPointsMap, cardId, Head(cardHistory)), cardId,
                   Tail(cardHistory))

\* dataPointsMap after selectedCards.forEach over cardIds.
RECURSIVE DataPointsMap(_, _, _)
DataPointsMap(dataPointsMap, filteredHistory, cardIds) ==
    IF cardIds = << >> THEN dataPointsMap
    ELSE DataPointsMap(SetPoints(dataPointsMap, Head(cardIds),
                                 SeriesOf(filteredHistory, Head(cardIds))),
                       filteredHistory, Tail(cardIds))

\* rows.sort((a, b) => a.timestamp - b.timestamp): a stable insertion sort.
RECURSIVE InsertByTimestamp(_, _)
InsertByTimestamp(sorted, row) ==
    IF sorted = << >> THEN <<row>>
    ELSE IF row.timestamp < Head(sorted).timestamp THEN <<row>> \o sorted
    ELSE <<Head(sorted)>> \o InsertByTimestamp(Tail(sorted), row)

RECURSIVE SortByTimestamp(_)
SortByTimestamp(rows) ==
    IF rows = << >> THEN << >>
    ELSE InsertByTimestamp(SortByTimestamp(SubSeq(rows, 1, Len(rows) - 1)),
                           rows[Len(rows)])

SelectedCardIds == {selectedCards[i] : i \in 1..Len(selectedCards)}

\* The series of the selected cards that getAllHistory returned.
filteredHistory ==
    LET all == AllHistory(selectedTimeRange).data IN
    [cardId \in SelectedCardIds \cap DOMAIN all |-> all[cardId]]

sortedData == SortByTimestamp(DataPointsMap(<< >>, filteredHistory, selectedCards))

filteredData_All == sortedData

\* The rows in which every selected card has a value.
filteredData ==
    SelectSeq(sortedData, LAMBDA point : \A cardId \in SelectedCardIds :
                                            cardId \in DOMAIN point.value)

\* group.map(p => p[cardId]).filter(v => v !== null && v !== undefined)
CardValues(group, cardId) ==
    LET having == SelectSeq(group, LAMBDA p : cardId \in DOMAIN p.value) IN
    [i \in 1..Len(having) |-> having[i].value[cardId]]

\* hasAllData after selectedCards.forEach over the rows of group.
HasAllData(group) == \A cardId \in SelectedCardIds : CardValues(group, cardId) # << >>

\* The number a strategy makes of a card's values.
Aggregate(values, method) ==
    IF method = "median" THEN MedianOf(values) ELSE Mean(values)

\* avgPoint or medianPoint: the timestamp and one number per selected card.
AggregateRow(timestamp, group, method) ==
    [timestamp |-> timestamp,
     value |-> [cardId \in SelectedCardIds |->
                   Aggregate(CardValues(group, cardId), method)],
     status |-> NoCells]

\* data.slice(startIdx, endIdx) for the row at index, counted from 0.
Window(data, index, windowSize) ==
    LET startIdx == MathMax(0, index - windowSize \div 2)
        endIdx == MathMin(Len(data), startIdx + windowSize)
    IN  SubSeq(data, startIdx + 1, endIdx)

\* data.map(...).filter(point => point !== null) of getMovingAverage.
MovingRows(data, windowSize) ==
    LET kept == SelectSeq([i \in 1..Len(data) |-> i - 1],
                          LAMBDA index : HasAllData(Window(data, index, windowSize)))
    IN  [j \in 1..Len(kept) |->
            AggregateRow(data[kept[j] + 1].timestamp,
                         Window(data, kept[j], windowSize), "moving")]

getMovingAverage_DropShort(data, windowSize) ==
    IF windowSize = 1 THEN data
    ELSE IF Len(data) < windowSize THEN << >>
    ELSE MovingRows(data, windowSize)

getMovingAverage(data, windowSize) ==
    IF windowSize = 1 \/ Len(data) < windowSize THEN data
    ELSE MovingRows(data, windowSize)

\* Math.floor(point.timestamp / intervalMs) * intervalMs
GroupKey(point, intervalMs) == (point.timestamp \div intervalMs) * intervalMs

\* groupedData after data.forEach: the keys, which are strings, in the order of
\* their creation, each with its rows.  Object.keys lists them in that order, a
\* key made of Date.now() being too large for an array index.
RECURSIVE GroupedData(_, _, _)
GroupedData(groupedData, data, intervalMs) ==
    IF data = << >> THEN groupedData
    ELSE LET key == NatToString(GroupKey(Head(data), intervalMs))
             created == IF \E i \in 1..Len(groupedData) : groupedData[i].key = key
                        THEN groupedData
                        ELSE Append(groupedData, [key |-> key, group |-> << >>])
             at == CHOOSE i \in 1..Len(created) : created[i].key = key
         IN  GroupedData([created EXCEPT ![at].group = Append(@, Head(data))],
                         Tail(data), intervalMs)

\* parseInt of a key: its leading digits.
parseInt(key) ==
    IF LeadingDigits(key) = << >> THEN NaN ELSE StringToNat(LeadingDigits(key))

\* Object.keys(groupedData).map(...).filter(point => point !== null)
GroupRows(data, intervalMinutes, method) ==
    LET groupedData == GroupedData(<< >>, data, intervalMinutes * 60 * 1000)
        kept == SelectSeq(groupedData, LAMBDA entry : HasAllData(entry.group))
    IN  [j \in 1..Len(kept) |->
            AggregateRow(parseInt(kept[j].key), kept[j].group, method)]

getIntervalAverage_Unsorted(data, intervalMinutes) ==
    IF intervalMinutes = 1 THEN data ELSE GroupRows(data, intervalMinutes, "interval")

getIntervalAverage(data, intervalMinutes) ==
    IF intervalMinutes = 1 THEN data
    ELSE SortByTimestamp(GroupRows(data, intervalMinutes, "interval"))

getMedianData(data, intervalMinutes) ==
    IF intervalMinutes = 1 THEN data
    ELSE SortByTimestamp(GroupRows(data, intervalMinutes, "median"))

getAveragedData(data) ==
    IF dataAveraging = 1 THEN data
    ELSE CASE averagingMethod = "moving" -> getMovingAverage(data, dataAveraging)
           [] averagingMethod = "interval" -> getIntervalAverage(data, dataAveraging)
           [] averagingMethod = "median" -> getMedianData(data, dataAveraging)
           [] OTHER -> data

getChartData == getAveragedData(filteredData)

\* The cards given to ChartView, and what the selects offer.
ChartCards == <<CardOf(IdTemp1), CardOf(IdCard2)>>
ChartCardIds == {ChartCards[i].id : i \in 1..Len(ChartCards)}
AveragingOptions == {1, 2, 5}
AveragingMethods == {"moving", "interval", "median"}
ChartTimeRanges == {HOUR, DAY}

ChartIdle ==
    /\ selectedTimeRange = HOUR
    /\ selectedCards = << >>
    /\ dataAveraging = 1
    /\ averagingMethod = "moving"
    /\ chartData = << >>

\* The effect that selects the first four cards while none is selected.
SelectInitialCards ==
    /\ Len(ChartCards) > 0
    /\ selectedCards = << >>
    /\ selectedCards' = [i \in 1..MathMin(4, Len(ChartCards)) |-> ChartCards[i].id]
    /\ UNCHANGED <<selectedTimeRange, dataAveraging, averagingMethod, chartData>>

\* onChange of a card's checkbox.
ToggleCard(cardId) ==
    /\ selectedCards' = IF cardId \in SelectedCardIds
                        THEN SelectSeq(selectedCards, LAMBDA id : id # cardId)
                        ELSE Append(selectedCards, cardId)
    /\ UNCHANGED <<selectedTimeRange, dataAveraging, averagingMethod, chartData>>

SelectAveragingMethod(method) ==
    /\ averagingMethod' = method
    /\ UNCHANGED <<selectedTimeRange, selectedCards, dataAveraging, chartData>>

SelectDataAveraging(minutes) ==
    /\ dataAveraging' = minutes
    /\ UNCHANGED <<selectedTimeRange, selectedCards, averagingMethod, chartData>>

SelectTimeRange(timeRange) ==
    /\ selectedTimeRange' = timeRange
    /\ UNCHANGED <<selectedCards, dataAveraging, averagingMethod, chartData>>

\* The chart on the screen is the chart of the component's state.
Rendered == chartData = getChartData

\* The render that follows a change of state calls getChartData.
Render ==
    /\ ~Rendered
    /\ chartData' = getChartData
    /\ UNCHANGED <<selectedTimeRange, selectedCards, dataAveraging, averagingMethod>>

-----------------------------------------------------------------------------
(* The dashboard's collection effect and ChartView's refresh effect        *)

\* The delay of the collection interval.
COLLECT_INTERVAL == 10000
\* refreshInterval at the start and the select's 1 s option.
DEFAULT_REFRESH == 5000
FAST_REFRESH == 1000

\* setInterval is called at most MaxIntervals times in a run, and the store gets
\* at most MaxCollected points.
MaxIntervals == 2
MaxCollected == 2
\* The broker delivers at most MaxCollectorMessages messages in a run.
MaxCollectorMessages == 2

IdLight1 == <<"l","i","g","h","t","-","1">>
IdTemp2 == <<"t","e","m","p","-","2">>
UnitLux == <<"l","u","x">>
SourceTemperature == <<"t","e","m","p","e","r","a","t","u","r","e">>
SourceLightIntensity == <<"l","i","g","h","t","I","n","t","e","n","s","i","t","y">>
SourceHumidity == <<"h","u","m","i","d","i","t","y">>
SourceSoilMoisture == <<"s","o","i","l","M","o","i","s","t","u","r","e">>
Payload7 == <<"7">>

Range(min, max) == [min |-> Tenths(min), max |-> Tenths(max)]

\* The default temperature card: it shows sensorData.temperature.
CardTemperature ==
    [id |-> IdTemp1, title |-> KwOndo, unit |-> UnitC,
     dataSource |-> SourceTemperature, mqttTopic |-> EmptyString,
     colorRanges |-> [low |-> Range(0, 10), normal |-> Range(10, 30),
                      warning |-> Range(30, 40), danger |-> Range(40, 50)]]

\* The default illuminance card, bound to a topic by the user.
CardLightBound ==
    [id |-> IdLight1, title |-> KwJodo, unit |-> UnitLux,
     dataSource |-> SourceLightIntensity, mqttTopic |-> TopicLightIntensity,
     colorRanges |-> [low |-> Range(0, 100), normal |-> Range(200, 80000),
                      warning |-> Range(100, 200), danger |-> Range(80000, 100000)]]

\* A temperature card bound to a topic.
CardTemperatureBound ==
    [id |-> IdTemp2, title |-> KwOndo, unit |-> UnitC,
     dataSource |-> EmptyString, mqttTopic |-> TopicTemperature,
     colorRanges |-> [low |-> Range(0, 10), normal |-> Range(10, 30),
                      warning |-> Range(30, 40), danger |-> Range(40, 50)]]

\* What loadCardConfigs returns.
CardConfigurations ==
    { <<CardTemperature, CardLightBound>>, <<CardTemperatureBound>> }

\* getLatestValueForTopic
getLatestValueForTopic(msgs, topic) ==
    LET topicMessages == SelectSeq(msgs, LAMBDA msg : msg.topic = topic) IN
    IF Len(topicMessages) = 0 THEN <<"0">>
    ELSE topicMessages[Len(topicMessages)].message

\* String.prototype.trim, of blanks.
RECURSIVE trim(_)
trim(s) ==
    IF s = << >> THEN s
    ELSE IF Head(s) = " " THEN trim(Tail(s))
    ELSE IF s[Len(s)] = " " THEN trim(SubSeq(s, 1, Len(s) - 1))
    ELSE s

\* The predicate of cards.filter in collectSensorData.
IsValidCard(card, closure) ==
    IF card.mqttTopic # EmptyString
    THEN LET rawValue == getLatestValueForTopic(closure.messages, card.mqttTopic) IN
         rawValue # EmptyString /\ trim(rawValue) # EmptyString
            /\ ~isNaN(parseFloat(rawValue))
    ELSE card.dataSource # EmptyString /\ closure.hasReceivedRealData

Within(range, value) == value >= range.min /\ value <= range.max

\* The status of a card bound to a topic, from its colour ranges.
RangeStatus(card, currentValue) ==
    IF Within(card.colorRanges.danger, currentValue) THEN "danger"
    ELSE IF Within(card.colorRanges.warning, currentValue) THEN "warning"
    ELSE IF Within(card.colorRanges.low, currentValue) THEN "low"
    ELSE "normal"

getTemperatureStatus(temp) ==
    IF temp < Tenths(10) THEN "low"
    ELSE IF temp > Tenths(40) THEN "danger"
    ELSE IF temp > Tenths(30) THEN "warning"
    ELSE "normal"

getHumidityStatus(humidity) ==
    IF humidity < Tenths(20) THEN "low"
    ELSE IF humidity > Tenths(80) THEN "danger"
    ELSE IF humidity < Tenths(30) \/ humidity > Tenths(70) THEN "warning"
    ELSE "normal"

getSoilMoistureStatus(moisture) ==
    IF moisture < Tenths(15) THEN "low"
    ELSE IF moisture > Tenths(80) THEN "danger"
    ELSE IF moisture < Tenths(25) THEN "warning"
    ELSE "normal"

getLightStatus(light) ==
    IF light < Tenths(100) THEN "low"
    ELSE IF light > Tenths(90000) THEN "danger"
    ELSE IF light < Tenths(200) THEN "warning"
    ELSE "normal"

\* currentValue and status of a card without topic, from sensorData.
SourceSample(card, data) ==
    CASE card.dataSource = SourceTemperature ->
            [value |-> data.temperature,
             status |-> IF data.temperature > Tenths(-50)
                             /\ data.temperature < Tenths(100)
                        THEN getTemperatureStatus(data.temperature) ELSE "normal"]
      [] card.dataSource = SourceHumidity ->
            [value |-> data.humidity,
             status |-> IF data.humidity >= 0 /\ data.humidity <= Tenths(100)
                        THEN getHumidityStatus(data.humidity) ELSE "normal"]
      [] card.dataSource = SourceSoilMoisture ->
            [value |-> data.soilMoisture,
             status |-> IF data.soilMoisture >= 0 /\ data.soilMoisture <= Tenths(100)
                        THEN getSoilMoistureStatus(data.soilMoisture) ELSE "normal"]
      [] card.dataSource = SourceLightIntensity ->
            [value |-> data.lightIntensity,
             status |-> IF data.lightIntensity >= 0
                        THEN getLightStatus(data.lightIntensity) ELSE "normal"]

SensorSources ==
    {SourceTemperature, SourceHumidity, SourceSoilMoisture, SourceLightIntensity}

\* The store as a value, for a caller that calls addDataPoint in a loop.
Store ==
    [history |-> history, accepted |-> accepted, saveTimeout |-> saveTimeout,
     timers |-> timers, timerSeq |-> timerSeq, scheduledAt |-> scheduledAt,
     ret |-> ret]

\* The store after addDataPoint, this.history being an object.
AfterAddDataPoint(st, cardId, value, status, cardTitle, unit) ==
    IF IsInvalidDataPoint(cardId, value)
    THEN [st EXCEPT !.ret = Return("addDataPoint", <<cardId, value>>, "invalid", Void)]
    ELSE IF ~isValidSensorValue(cardId, value, cardTitle)
    THEN [st EXCEPT !.ret = Return("addDataPoint", <<cardId, value>>, "out-of-range",
                                   Void)]
    ELSE LET dataPoint == DataPoint(cardId, value, status, cardTitle, unit) IN
         [history |-> WithSeries(st.history, cardId,
                                 PushAndTrim(SeriesOf(st.history, cardId), dataPoint)),
          accepted |-> WithSeries(st.accepted, cardId,
                                  Append(SeriesOf(st.accepted, cardId), dataPoint)),
          saveTimeout |-> st.timerSeq + 1,
          timers |-> { t \in st.timers :
                          st.saveTimeout = NoTimer \/ t.id # st.saveTimeout }
                        \cup {[id |-> st.timerSeq + 1, due |-> now + SAVE_DELAY]},
          timerSeq |-> st.timerSeq + 1,
          scheduledAt |-> now,
          ret |-> Return("addDataPoint", <<cardId, value>>, "none", Void)]

\* The body of validCards.forEach for one card.
CollectCard(st, card, closure) ==
    IF card.mqttTopic # EmptyString
    THEN LET rawValue == getLatestValueForTopic(closure.messages, card.mqttTopic)
             currentValue == parseFloat(rawValue)
         IN  AfterAddDataPoint(st, card.id, currentValue,
                               RangeStatus(card, currentValue), card.title, card.unit)
    ELSE IF card.dataSource \in SensorSources
    THEN LET sample == SourceSample(card, closure.sensorData) IN
         AfterAddDataPoint(st, card.id, sample.value, sample.status, card.title,
                           card.unit)
    ELSE st

RECURSIVE CollectCards(_, _, _)
CollectCards(st, validCards, closure) ==
    IF validCards = << >> THEN st
    ELSE CollectCards(CollectCard(st, Head(validCards), closure), Tail(validCards),
                      closure)

\* What collectSensorData closes over.
Closure ==
    [cards |-> cards, messages |-> messages, sensorData |-> sensorData,
     hasReceivedRealData |-> hasReceivedRealData]

NoClosure ==
    [cards |-> << >>, messages |-> << >>,
     sensorData |-> [temperature |-> 0, humidity |-> 0, soilMoisture |-> 0,
                     lightIntensity |-> 0, lastUpdated |-> 0],
     hasReceivedRealData |-> FALSE]

\* collectSensorData of the render that made closure: the store after it.
collectSensorData(closure) ==
    CollectCards(Store, SelectSeq(closure.cards, LAMBDA card : IsValidCard(card, closure)),
                 closure)

\* The store becomes st.
StoreBecomes(st) ==
    /\ st.timerSeq <= MaxCollected
    /\ history' = st.history
    /\ accepted' = st.accepted
    /\ saveTimeout' = st.saveTimeout
    /\ timers' = st.timers
    /\ timerSeq' = st.timerSeq
    /\ scheduledAt' = st.scheduledAt
    /\ ret' = st.ret
    /\ UNCHANGED <<histKind, storage, now>>

\* clearInterval(id): the active intervals after it.
clearInterval_Leak(id) == intervals

clearInterval(id) == { t \in intervals : t.id # id }

\* An effect that has not run, and the dependencies of the collection effect.
NoEffect == [deps |-> << >>, interval |-> NoTimer]
CollectDeps == <<cards, messages, sensorData, hasReceivedRealData, isInitializing>>

\* The collection effect, run by React after a render in which one of its
\* dependencies has changed: the cleanup of its previous run, then its body.
CollectionEffect ==
    /\ mounted
    /\ collectEffect.deps # CollectDeps
    /\ IF ~hasReceivedRealData \/ isInitializing \/ Len(cards) = 0
       THEN /\ intervals' = clearInterval(collectEffect.interval)
            /\ collectEffect' = [deps |-> CollectDeps, interval |-> NoTimer]
            /\ UNCHANGED <<intervalSeq, storeVars>>
       ELSE /\ intervalSeq < MaxIntervals
            /\ StoreBecomes(collectSensorData(Closure))
            /\ intervals' = clearInterval(collectEffect.interval)
                               \cup {[id |-> intervalSeq + 1,
                                      callback |-> "collectSensorData",
                                      delay |-> COLLECT_INTERVAL,
                                      closure |-> Closure]}
            /\ intervalSeq' = intervalSeq + 1
            /\ collectEffect' = [deps |-> CollectDeps, interval |-> intervalSeq + 1]
    /\ UNCHANGED <<cards, mounted, arrivedInitializing, chartMounted, refreshInterval,
                   refreshEffect>>

\* An interval of the collection effect fires: collectSensorData of the render
\* that created it.
CollectionTimer ==
    \E t \in intervals :
        /\ t.callback = "collectSensorData"
        /\ StoreBecomes(collectSensorData(t.closure))
        /\ UNCHANGED collectorVars

\* The dashboard is unmounted: the cleanups of its effects.
Unmount ==
    /\ mounted
    /\ mounted' = FALSE
    /\ intervals' = clearInterval(collectEffect.interval)
    /\ UNCHANGED <<cards, intervalSeq, collectEffect, arrivedInitializing, chartMounted,
                   refreshInterval, refreshEffect>>

\* ChartView is mounted, with the state of its first render.
ChartMount ==
    /\ ~chartMounted
    /\ chartMounted' = TRUE
    /\ refreshInterval' = DEFAULT_REFRESH
    /\ refreshEffect' = NoEffect
    /\ UNCHANGED <<cards, mounted, intervals, intervalSeq, collectEffect,
                   arrivedInitializing>>

\* onChange of the refresh select.
SelectRefreshInterval(ms) ==
    /\ chartMounted
    /\ refreshInterval' = ms
    /\ UNCHANGED <<cards, mounted, intervals, intervalSeq, collectEffect,
                   arrivedInitializing, chartMounted, refreshEffect>>

\* ChartView's refresh effect, run after the first render and after a render in
\* which refreshInterval has changed.
RefreshEffect ==
    /\ chartMounted
    /\ refreshEffect.deps # <<refreshInterval>>
    /\ intervalSeq < MaxIntervals
    /\ intervals' = clearInterval(refreshEffect.interval)
                       \cup {[id |-> intervalSeq + 1, callback |-> "setLastUpdate",
                              delay |-> refreshInterval, closure |-> NoClosure]}
    /\ intervalSeq' = intervalSeq + 1
    /\ refreshEffect' = [deps |-> <<refreshInterval>>, interval |-> intervalSeq + 1]
    /\ UNCHANGED <<cards, mounted, collectEffect, arrivedInitializing, chartMounted,
                   refreshInterval>>

\* An interval of the refresh effect fires: setLastUpdate(Date.now()), and the
\* render it causes calls getChartData.
RefreshTimer ==
    \E t \in intervals :
        /\ t.callback = "setLastUpdate"
        /\ chartData' = getChartData
        /\ UNCHANGED <<selectedTimeRange, selectedCards, dataAveraging, averagingMethod>>
        /\ UNCHANGED collectorVars

\* ChartView is unmounted: the cleanup of its effect.
ChartUnmount ==
    /\ chartMounted
    /\ chartMounted' = FALSE
    /\ intervals' = clearInterval(refreshEffect.interval)
    /\ UNCHANGED <<cards, mounted, intervalSeq, collectEffect, arrivedInitializing,
                   refreshInterval, refreshEffect>>

CollectorIdle ==
    /\ cards = << >>
    /\ mounted = TRUE
    /\ intervals = {}
    /\ intervalSeq = 0
    /\ collectEffect = NoEffect
    /\ arrivedInitializing = {}
    /\ chartMounted = FALSE
    /\ refreshInterval = DEFAULT_REFRESH
    /\ refreshEffect = NoEffect

-----------------------------------------------------------------------------
(* The clock *)

TickUpTo(maxTicks) ==
    /\ now < maxTicks * TickMs
    /\ now' = now + TickMs
    /\ ret' = Return("tick", << >>, "none", Void)
    /\ UNCHANGED <<history, histKind, saveTimeout, timers, timerSeq, storage,
                   accepted, scheduledAt>>

-----------------------------------------------------------------------------
(* The store: the page loads, then calls, timer callbacks and reloads *)

ValidatorIdle == vIn = << >> /\ vOut = "idle"

StoreIdle ==
    /\ storage = Absent
    /\ now = 0
    /\ timerSeq = 0
    /\ saveTimeout = NoTimer
    /\ timers = {}
    /\ scheduledAt = 0
    /\ histKind = "object"
    /\ history = EmptyHistory
    /\ accepted = EmptyHistory
    /\ ret = Return("constructor", << >>, "none", Void)

Init ==
    /\ storage \in InitialStorage
    /\ now = 0
    /\ timerSeq = 0
    /\ saveTimeout = NoTimer
    /\ timers = {}
    /\ scheduledAt = 0
    /\ \E getItemThrows \in BOOLEAN :
          /\ histKind = LoadHistory(getItemThrows, storage)[1]
          /\ history = LoadHistory(getItemThrows, storage)[2]
          /\ accepted = LoadHistory(getItemThrows, storage)[2]
          /\ ret = Return("constructor", << >>, LoadLog(getItemThrows, storage),
                          Void)
    /\ ValidatorIdle
    /\ TreeIdle
    /\ DashboardIdle
    /\ ChartIdle
    /\ CollectorIdle

Tick == TickUpTo(MaxTicks)

QueryTick == TickUpTo(MaxQueryTicks)

Reload == \E getItemThrows \in BOOLEAN : Construct(getItemThrows)

Add ==
    \E sample \in StoreSamples :
        addDataPoint(sample.card.id, sample.value, sample.status,
                     sample.card.title, sample.card.unit)

QueryAdd ==
    \E sample \in QuerySamples :
        addDataPoint(sample.card.id, sample.value, sample.status,
                     sample.card.title, sample.card.unit)

Flush == \E t \in timers, setItemThrows \in BOOLEAN : FlushTimer(t, setItemThrows)

ClearAll == \E removeItemThrows \in BOOLEAN : clearHistory(removeItemThrows)

ClearCard == \E cardId \in QueryCardIds : clearCardHistory(cardId)

QueryCard == \E cardId \in QueryCardIds, timeRange \in TimeRanges :
                getCardHistory(cardId, timeRange)

QueryAll == \E timeRange \in TimeRanges : getAllHistory(timeRange)

QueryStatistics == \E cardId \in QueryCardIds, timeRange \in TimeRanges \ {Undefined} :
                      getStatistics(cardId, timeRange)

QueryDistribution == \E timeRange \in TimeRanges \ {Undefined} :
                        getStatusDistribution(timeRange)

QueryDistributionData == \E timeRange \in TimeRanges \ {Undefined} :
                            getStatusDistributionData(timeRange)

\* The store through page loads: mutations, the flush callback, reloads.
Next ==
    /\ \/ Reload
       \/ Add
       \/ Flush
       \/ ClearAll
       \/ ClearCard
       \/ Tick
    /\ UNCHANGED <<validatorVars, treeVars, dashboardVars, chartVars, collectorVars>>

Spec == Init /\ [][Next]_vars

\* The store within one page load, with its queries.
QueryNext ==
    /\ \/ QueryAdd
       \/ ClearAll
       \/ ClearCard
       \/ QueryCard
       \/ QueryAll
       \/ QueryStatistics
       \/ QueryDistribution
       \/ QueryDistributionData
       \/ QueryTick
    /\ UNCHANGED <<validatorVars, treeVars, dashboardVars, chartVars, collectorVars>>

QueryInit == Init /\ storage.kind \in {"absent", "null", "number"}

QuerySpec == QueryInit /\ [][QueryNext]_vars

-----------------------------------------------------------------------------
(* isValidSensorValue on its own: arguments drawn at the start, one call *)

IdHumidity1 == <<"h","u","m","i","d","i","t","y","-","1">>
IdSoil1 == <<"s","o","i","l","-","1">>
IdTemperatureUpper == <<"T","e","m","p","e","r","a","t","u","r","e">>
TitleTempUpper == <<"T","E","M","P">>
TitleHumidity == <<"H","u","m","i","d","i","t","y">>
TitleSoil == <<"S","o","i","l">>
TitleLux == <<"L","u","x">>
TitleCo2 == <<"C","O","2">>
\* A title with the keywords of two categories.
TitleTempHumid == <<"t","e","m","p","/","h","u","m","i","d">>

ValidatorIds == {IdTemp1, IdHumidity1, IdSoil1, IdCard2, IdTemperatureUpper}

ValidatorTitles ==
    {KwOndo, TitleTempUpper, KwSeupdo, TitleHumidity, KwToyang, TitleSoil, KwJodo,
     TitleLux, TitleCo2, KwIsanhwatanso, TitlePh, TitleTempHumid}

\* The ends of every range, their neighbours, 0, 23.5 and 65.
ValidatorValues ==
    {Tenths(-1000000) - 1, Tenths(-1000000), Tenths(-50) - 1, Tenths(-50), -1, 0, 1,
     235, Tenths(65), Tenths(80), Tenths(80) + 1, Tenths(100), Tenths(100) + 1,
     Tenths(300) - 1, Tenths(300), Tenths(5000), Tenths(5000) + 1, Tenths(200000),
     Tenths(200000) + 1, Tenths(1000000), Tenths(1000000) + 1}

ValidatorInit ==
    /\ vIn \in [cardId : ValidatorIds, value : ValidatorValues,
                cardTitle : ValidatorTitles]
    /\ vOut = "pending"
    /\ StoreIdle
    /\ TreeIdle
    /\ DashboardIdle
    /\ ChartIdle
    /\ CollectorIdle

Validate ==
    /\ vOut = "pending"
    /\ vOut' = IF isValidSensorValue(vIn.cardId, vIn.value, vIn.cardTitle)
               THEN "accepted" ELSE "rejected"
    /\ UNCHANGED vIn
    /\ UNCHANGED <<storeVars, treeVars, dashboardVars, chartVars, collectorVars>>

ValidatorNext == Validate

ValidatorSpec == ValidatorInit /\ [][ValidatorNext]_vars

-----------------------------------------------------------------------------
(* The parser's runs *)

TreeInit ==
    TreeIdle /\ StoreIdle /\ ValidatorIdle /\ DashboardIdle /\ ChartIdle /\ CollectorIdle

AddMessage ==
    /\ msgCount < MaxMessages
    /\ \E topic \in TreeTopics, payload \in Payloads :
          addMessage([topic |-> topic, message |-> payload,
                      timestamp |-> msgCount + 1])
    /\ msgCount' = msgCount + 1

Clear ==
    /\ clear
    /\ UNCHANGED msgCount

TreeNext ==
    /\ \/ AddMessage
       \/ Clear
    /\ UNCHANGED <<storeVars, validatorVars, dashboardVars, chartVars, collectorVars>>

TreeSpec == TreeInit /\ [][TreeNext]_vars

-----------------------------------------------------------------------------
(* The dashboard's runs: messages arrive, React runs the effect *)

\* The messages the broker delivers: (topic, payload).
DeliveredMessages ==
    { <<TopicTemperature, Payload235>>, <<TopicTemperature, <<"0">>>>,
      <<TopicLightIntensity, <<"0">>>>, <<TopicLightIntensity, Payload235>>,
      <<TopicAB, PayloadOn>>, <<TopicAB, Payload235>> }

DashboardInit ==
    TreeIdle /\ StoreIdle /\ ValidatorIdle /\ DashboardIdle /\ ChartIdle /\ CollectorIdle

Deliver ==
    /\ msgCount < MaxMessages
    /\ \E m \in DeliveredMessages : OnMessage(m[1], m[2])

DashboardNext ==
    /\ \/ Deliver
       \/ MessageEffect
       \/ InitTimer
    /\ UNCHANGED <<storeVars, validatorVars, chartVars, collectorVars>>

DashboardSpec == DashboardInit /\ [][DashboardNext]_vars

-----------------------------------------------------------------------------
(* The chart's runs: a history in the store, the user changes the settings *)

\* Time is counted from the start of an hour; minute k of the second hour.
Minute(k) == HOUR + k * 60 * 1000

ChartPoint(cardId, timestamp, value) ==
    [timestamp |-> timestamp, value |-> value, status |-> "normal",
     cardId |-> cardId, cardTitle |-> CardOf(cardId).title,
     unit |-> CardOf(cardId).unit]

\* Temperature has a sample at minutes 0 and 1, the other card at minute 0 only.
HistoryMissingRow ==
    WithSeries(WithSeries(EmptyHistory, IdTemp1,
                          <<ChartPoint(IdTemp1, Minute(0), Tenths(1)),
                            ChartPoint(IdTemp1, Minute(1), Tenths(2))>>),
               IdCard2, <<ChartPoint(IdCard2, Minute(0), Tenths(10))>>)

\* Values 1, 2, 3, 4 at minutes 0 to 3, beside 10, 20, 40, 30.
HistoryFour ==
    WithSeries(WithSeries(EmptyHistory, IdTemp1,
                          [k \in 1..4 |-> ChartPoint(IdTemp1, Minute(k - 1), Tenths(k))]),
               IdCard2,
               <<ChartPoint(IdCard2, Minute(0), Tenths(10)),
                 ChartPoint(IdCard2, Minute(1), Tenths(20)),
                 ChartPoint(IdCard2, Minute(2), Tenths(40)),
                 ChartPoint(IdCard2, Minute(3), Tenths(30))>>)

\* Values 1, 2, 3 at minutes 0 to 2.
HistoryThree ==
    WithSeries(EmptyHistory, IdTemp1,
               [k \in 1..3 |-> ChartPoint(IdTemp1, Minute(k - 1), Tenths(k))])

\* Values out of order over two intervals of five minutes.
HistorySix ==
    WithSeries(EmptyHistory, IdTemp1,
               <<ChartPoint(IdTemp1, Minute(0), Tenths(3)),
                 ChartPoint(IdTemp1, Minute(1), Tenths(1)),
                 ChartPoint(IdTemp1, Minute(2), Tenths(2)),
                 ChartPoint(IdTemp1, Minute(4), Tenths(5)),
                 ChartPoint(IdTemp1, Minute(5), Tenths(4)),
                 ChartPoint(IdTemp1, Minute(7), 235)>>)

\* One sample older than an hour and one within it.
HistoryOld ==
    WithSeries(WithSeries(EmptyHistory, IdTemp1,
                          <<ChartPoint(IdTemp1, 30 * 60 * 1000, Tenths(5)),
                            ChartPoint(IdTemp1, Minute(0), Tenths(1))>>),
               IdCard2, <<ChartPoint(IdCard2, Minute(0), Tenths(7))>>)

ChartHistories ==
    {EmptyHistory, HistoryMissingRow, HistoryFour, HistoryThree, HistorySix,
     HistoryOld}

ChartInit ==
    /\ history \in ChartHistories
    /\ histKind = "object"
    /\ accepted = history
    /\ now = 2 * HOUR
    /\ storage = Absent
    /\ timerSeq = 0
    /\ saveTimeout = NoTimer
    /\ timers = {}
    /\ scheduledAt = 0
    /\ ret = Return("constructor", << >>, "none", Void)
    /\ ValidatorIdle
    /\ TreeIdle
    /\ DashboardIdle
    /\ ChartIdle
    /\ CollectorIdle

InitialSelection == SelectInitialCards

Toggle == \E cardId \in ChartCardIds : ToggleCard(cardId)

ChooseMethod == \E method \in AveragingMethods : SelectAveragingMethod(method)

ChooseAveraging == \E minutes \in AveragingOptions : SelectDataAveraging(minutes)

ChooseTimeRange == \E timeRange \in ChartTimeRanges : SelectTimeRange(timeRange)

ChartNext ==
    /\ UNCHANGED <<storeVars, validatorVars, treeVars, dashboardVars, collectorVars>>
    /\ \/ InitialSelection
       \/ Toggle
       \/ ChooseMethod
       \/ ChooseAveraging
       \/ ChooseTimeRange
       \/ Render

ChartSpec == ChartInit /\ [][ChartNext]_vars

-----------------------------------------------------------------------------
(* The collector's runs: the cards are loaded, messages arrive, React runs   *)
(* the effects, the intervals fire, the components are unmounted            *)

\* The messages the broker delivers: (topic, payload).
CollectorMessages ==
    { <<TopicTemperature, Payload235>>, <<TopicLightIntensity, Payload7>> }

CollectorInit ==
    /\ StoreIdle
    /\ ValidatorIdle
    /\ TreeIdle
    /\ DashboardIdle
    /\ ChartIdle
    /\ cards \in CardConfigurations
    /\ mounted = TRUE
    /\ intervals = {}
    /\ intervalSeq = 0
    /\ collectEffect = NoEffect
    /\ arrivedInitializing = {}
    /\ chartMounted = FALSE
    /\ refreshInterval = DEFAULT_REFRESH
    /\ refreshEffect = NoEffect

CollectorDeliver ==
    /\ mounted
    /\ msgCount < MaxCollectorMessages
    /\ \E m \in CollectorMessages : OnMessage(m[1], m[2])
    /\ arrivedInitializing' = IF isInitializing
                              THEN arrivedInitializing \cup {msgCount + 1}
                              ELSE arrivedInitializing
    /\ UNCHANGED <<cards, mounted, intervals, intervalSeq, collectEffect, chartMounted,
                   refreshInterval, refreshEffect>>
    /\ UNCHANGED <<storeVars, validatorVars, chartVars>>

CollectorMessageEffect ==
    /\ mounted
    /\ MessageEffect
    /\ UNCHANGED <<storeVars, validatorVars, chartVars, collectorVars>>

CollectorInitTimer ==
    /\ mounted
    /\ InitTimer
    /\ UNCHANGED <<storeVars, validatorVars, chartVars, collectorVars>>

RunCollectionEffect ==
    CollectionEffect /\ UNCHANGED <<validatorVars, dashboardVars, treeVars, chartVars>>

FireCollectionTimer ==
    CollectionTimer /\ UNCHANGED <<validatorVars, dashboardVars, treeVars, chartVars>>

UnmountDashboard ==
    Unmount /\ UNCHANGED <<storeVars, validatorVars, dashboardVars, treeVars, chartVars>>

MountChart ==
    ChartMount /\ UNCHANGED <<storeVars, validatorVars, dashboardVars, treeVars, chartVars>>

ChooseRefreshInterval ==
    /\ \E ms \in {DEFAULT_REFRESH, FAST_REFRESH} : SelectRefreshInterval(ms)
    /\ UNCHANGED <<storeVars, validatorVars, dashboardVars, treeVars, chartVars>>

RunRefreshEffect ==
    RefreshEffect /\ UNCHANGED <<storeVars, validatorVars, dashboardVars, treeVars, chartVars>>

FireRefreshTimer ==
    RefreshTimer /\ UNCHANGED <<storeVars, validatorVars, dashboardVars, treeVars>>

UnmountChart ==
    ChartUnmount /\ UNCHANGED <<storeVars, validatorVars, dashboardVars, treeVars, chartVars>>

CollectorNext ==
    \/ CollectorDeliver
    \/ CollectorMessageEffect
    \/ CollectorInitTimer
    \/ RunCollectionEffect
    \/ FireCollectionTimer
    \/ UnmountDashboard
    \/ MountChart
    \/ ChooseRefreshInterval
    \/ RunRefreshEffect
    \/ FireRefreshTimer
    \/ UnmountChart

CollectorSpec == CollectorInit /\ [][CollectorNext]_vars

-----------------------------------------------------------------------------
(* C5 *)

\* The ranges as the specification states them, per category.
StatedRange(category, v) ==
    CASE category = "temperature" -> v >= Tenths(-50) /\ v <= Tenths(80) /\ v # 0
      [] category \in {"humidity", "soil"} -> v > 0 /\ v <= Tenths(100)
      [] category = "illuminance" -> v >= 0 /\ v <= Tenths(200000)
      [] category = "co2" -> v >= Tenths(300) /\ v <= Tenths(5000)
      [] OTHER -> v # 0 /\ v >= Tenths(-1000000) /\ v <= Tenths(1000000)

\* C5: isValidSensorValue accepts a finite value exactly when the value lies in the
\* range stated for the category of its series: temperature [-50, 80] without 0,
\* humidity and soil moisture (0, 100], illuminance [0, 200000], CO2 [300, 5000],
\* anything else [-1000000, 1000000] without 0.
C5_ValidatorRanges ==
    vOut \in {"accepted", "rejected"} =>
        (vOut = "accepted"
            <=> StatedRange(SensorCategory(vIn.cardId, vIn.cardTitle), vIn.value))

\* Temperature 0 has been rejected.
C5_Witness ==
    /\ vOut = "rejected"
    /\ vIn.value = 0
    /\ SensorCategory(vIn.cardId, vIn.cardTitle) = "temperature"

-----------------------------------------------------------------------------
(* C1, C2: retention *)

\* C1: right after addDataPoint returns, no series of the history holds more than
\* maxPoints points.
C1_BoundedRetention ==
    (ret.op = "addDataPoint" /\ ret.outcome = "return") =>
        \A cardId \in DOMAIN history : Len(history[cardId]) <= MAX_HISTORY_POINTS

\* A point has just been stored in a series that had been full.
C1_Witness ==
    /\ ret.op = "addDataPoint"
    /\ ret.log = "none"
    /\ ret.outcome = "return"
    /\ \E cardId \in DOMAIN history :
          /\ Len(history[cardId]) = MAX_HISTORY_POINTS
          /\ Len(accepted[cardId]) > MAX_HISTORY_POINTS

\* C2: a series holds exactly the last min(n, maxPoints) of the n points accepted
\* for it since it was last empty (or loaded), in the order of their acceptance.
C2_FifoEviction ==
    /\ DOMAIN accepted = DOMAIN history
    /\ \A cardId \in DOMAIN history :
          history[cardId] = SliceLast(accepted[cardId], MAX_HISTORY_POINTS)

\* The oldest point of a series has been evicted and the points kept differ.
C2_Witness ==
    \E cardId \in DOMAIN history :
        /\ Len(accepted[cardId]) > MAX_HISTORY_POINTS
        /\ history[cardId][1] # accepted[cardId][1]
        /\ history[cardId][1] # history[cardId][Len(history[cardId])]

-----------------------------------------------------------------------------
(* C3, C4: rejected input *)

\* C3: addDataPoint with NaN, an infinity or a value that is not a number returns
\* normally, leaves the history as it is and schedules no flush.
C3_MalformedRejected ==
    [][\A sample \in StoreSamples :
          (/\ sample.value \in MalformedValues
           /\ addDataPoint(sample.card.id, sample.value, sample.status,
                           sample.card.title, sample.card.unit))
          => /\ ret'.outcome = "return"
             /\ UNCHANGED <<history, histKind, saveTimeout, timers, timerSeq, storage>>
      ]_vars

\* A malformed value has been rejected while the store held points and a flush
\* was pending.
C3_Witness ==
    /\ ret.op = "addDataPoint"
    /\ ret.outcome = "return"
    /\ ret.args[2] \in MalformedValues
    /\ ret.args[1] # EmptyString
    /\ ret.args[1] \in DOMAIN history
    /\ timers # {}

\* What a caller of getStatistics and of getStatusDistribution gets.
StatisticsResult(cardId, timeRange) ==
    IF histKind = "null" THEN [thrown |-> "TypeError"]
    ELSE Statistics(cardId, timeRange)

StatusDistributionResult(timeRange) ==
    IF histKind = "null" THEN [thrown |-> "TypeError"]
    ELSE [status \in Statuses |-> StatusDistribution(timeRange)[status]]

\* C4: addDataPoint with a finite value outside the range stated for its series
\* returns normally, stores nothing, and getStatistics and getStatusDistribution
\* give the same results after it as before it.
C4_ImplausibleDropped ==
    [][\A sample \in QuerySamples :
          (/\ ~StatedRange(SensorCategory(sample.card.id, sample.card.title),
                           sample.value)
           /\ addDataPoint(sample.card.id, sample.value, sample.status,
                           sample.card.title, sample.card.unit))
          => /\ ret'.outcome = "return"
             /\ history' = history
             /\ \A cardId \in QueryCardIds, timeRange \in TimeRanges \ {Undefined} :
                   StatisticsResult(cardId, timeRange)'
                       = StatisticsResult(cardId, timeRange)
             /\ \A timeRange \in TimeRanges \ {Undefined} :
                   StatusDistributionResult(timeRange)'
                       = StatusDistributionResult(timeRange)
      ]_vars

\* The value 0 has been dropped for a series that holds points.
C4_Witness ==
    /\ ret.op = "addDataPoint"
    /\ ret.log = "out-of-range"
    /\ ret.args[2] = 0
    /\ ret.args[1] \in DOMAIN history
    /\ history[ret.args[1]] # << >>

-----------------------------------------------------------------------------
(* C6, C7: queries *)

\* C6: a call of getCardHistory or getAllHistory, with or without a time range,
\* changes nothing of the store, and every point stored before it is returned by a
\* query without a window after it.
C6_QueriesReadOnly ==
    [][ret'.op \in {"getCardHistory", "getAllHistory"}
          => /\ UNCHANGED <<history, histKind, saveTimeout, timers, timerSeq, storage>>
             /\ \A cardId \in DOMAIN history :
                   CardHistory(cardId, Undefined)' = history[cardId]
      ]_vars

\* A windowed query has returned fewer points than the series holds.
C6_Witness ==
    /\ ret.op = "getCardHistory"
    /\ ret.outcome = "return"
    /\ ret.args[1] \in DOMAIN history
    /\ Len(ret.value.points) < Len(history[ret.args[1]])

\* C7 as stated: with any time range supplied, 0 included, the queries return the
\* points with timestamp >= now - timeRange; without one, all points.
C7_WindowSemantics ==
    /\ (ret.op = "getCardHistory" /\ ret.outcome = "return") =>
          ret.value.points =
              IF ret.args[2] = Undefined
              THEN SeriesOf(history, ret.args[1])
              ELSE FilterSince(SeriesOf(history, ret.args[1]), now - ret.args[2])
    /\ (ret.op = "getAllHistory" /\ ret.outcome = "return" /\ histKind = "object") =>
          ret.value.data =
              IF ret.args[1] = Undefined
              THEN history
              ELSE [cardId \in DOMAIN history |->
                        FilterSince(history[cardId], now - ret.args[1])]

-----------------------------------------------------------------------------
(* C8, C9: failures of the storage and of its content *)

C9_StorageFailuresContained ==
    /\ ret.op \in {"constructor", "flush", "clearHistory"} => ret.outcome = "return"
    /\ (ret.op \in {"addDataPoint", "clearCardHistory"} /\ histKind = "object")
          => ret.outcome = "return"
    /\ ret.op = "clearHistory" => history = EmptyHistory

-----------------------------------------------------------------------------
(* C10: the debounced flush *)

\* C10: at most one flush timer is pending, and it is the one of the last call of
\* saveHistory, due SAVE_DELAY after it; a mutation that calls saveHistory leaves
\* exactly one pending; the flush callback runs no sooner than SAVE_DELAY after
\* the last such mutation and leaves none pending.
C10_DebouncedFlush ==
    /\ Cardinality(timers) <= 1
    /\ \A t \in timers : t.id = saveTimeout /\ t.due = scheduledAt + SAVE_DELAY
    /\ (/\ ret.outcome = "return"
        /\ \/ ret.op = "addDataPoint" /\ ret.log = "none"
           \/ ret.op = "clearCardHistory")
          => Cardinality(timers) = 1
    /\ ret.op = "flush" => (now >= scheduledAt + SAVE_DELAY /\ timers = {})

\* Two points accepted at different times have been written by one flush: the
\* first write of the page, by the second timer.
C10_Witness ==
    /\ ret.op = "flush"
    /\ ret.log = "none"
    /\ timerSeq = 2
    /\ saveTimeout = 2
    /\ storage.kind = "object"
    /\ \E cardId \in DOMAIN Parse(storage.data) :
          /\ Len(Parse(storage.data)[cardId]) = 2
          /\ Parse(storage.data)[cardId][1].timestamp
                < Parse(storage.data)[cardId][2].timestamp

-----------------------------------------------------------------------------
(* C11, C12: what is persisted *)

\* C11: right after the flush callback has written, the stored text is the text of
\* the history as it is now, and what loadHistory would make of it has the same
\* series ids and, per series, the same points in the same order, with equal
\* timestamp, value and status.
C11_RoundTrip ==
    (ret.op = "flush" /\ ret.log = "none") =>
        /\ storage = Stringify(histKind, history)
        /\ histKind = "object" =>
              LET loaded == LoadHistory(FALSE, storage)[2] IN
              /\ DOMAIN loaded = DOMAIN history
              /\ \A cardId \in DOMAIN history :
                    /\ Len(loaded[cardId]) = Len(history[cardId])
                    /\ \A i \in 1..Len(history[cardId]) :
                          /\ loaded[cardId][i].timestamp = history[cardId][i].timestamp
                          /\ loaded[cardId][i].value = history[cardId][i].value
                          /\ loaded[cardId][i].status = history[cardId][i].status

\* The flush has written two series, one of them with the value 23.5 taken at a
\* time other than 0.
C11_Witness ==
    /\ ret.op = "flush"
    /\ ret.log = "none"
    /\ histKind = "object"
    /\ Cardinality(DOMAIN history) = 2
    /\ \E cardId \in DOMAIN history, i \in 1..MAX_HISTORY_POINTS :
          /\ i <= Len(history[cardId])
          /\ history[cardId][i].value = 235
          /\ history[cardId][i].timestamp > 0

\* C12: clearCardHistory(id) removes exactly series id and clearHistory removes
\* every series, so no query returns their points afterwards; a snapshot written by
\* the flush callback holds only points accepted since the series was last cleared
\* or loaded, and after clearHistory has returned there is no snapshot to load.
C12_ClearsIrreversible ==
    /\ [][
          /\ (ret'.op = "clearCardHistory" /\ ret'.outcome = "return") =>
                /\ ret'.args[1] \notin DOMAIN history'
                /\ DOMAIN history' = DOMAIN history \ {ret'.args[1]}
                /\ \A cardId \in DOMAIN history' : history'[cardId] = history[cardId]
                /\ \A cardId \in QueryCardIds, timeRange \in TimeRanges :
                      cardId = ret'.args[1] =>
                          CardHistory(cardId, timeRange)' = << >>
          /\ (ret'.op = "clearHistory") =>
                /\ history' = EmptyHistory
                /\ \A cardId \in QueryCardIds, timeRange \in TimeRanges :
                      CardHistory(cardId, timeRange)' = << >>
       ]_vars
    /\ []((ret.op = "flush" /\ ret.log = "none" /\ storage.kind = "object") =>
              LET loaded == LoadHistory(FALSE, storage)[2] IN
              /\ DOMAIN loaded \subseteq DOMAIN accepted
              /\ \A cardId \in DOMAIN loaded :
                    \A i \in 1..Len(loaded[cardId]) :
                        \E j \in 1..Len(accepted[cardId]) :
                            loaded[cardId][i] = accepted[cardId][j])
    /\ []((ret.op = "clearHistory" /\ ret.outcome = "return") =>
              LoadHistory(FALSE, storage)[2] = EmptyHistory)

\* A series that is in the stored snapshot has just been cleared with
\* clearCardHistory while another series stays.
C12_Witness ==
    /\ ret.op = "clearCardHistory"
    /\ ret.outcome = "return"
    /\ storage.kind = "object"
    /\ ret.args[1] \in DOMAIN Parse(storage.data)
    /\ Parse(storage.data)[ret.args[1]] # << >>
    /\ ret.args[1] \notin DOMAIN history
    /\ history # EmptyHistory

-----------------------------------------------------------------------------
(* C13, C14: statistics *)

PointsInWindow(status, timeRange) ==
    Cardinality({ at \in (DOMAIN history) \X (1..MAX_HISTORY_POINTS) :
                    /\ at[2] <= Len(history[at[1]])
                    /\ history[at[1]][at[2]].status = status
                    /\ history[at[1]][at[2]].timestamp >= now - timeRange })

\* The label an item of the chart's distribution is shown under.
StatusOfName(name) ==
    CASE name = NameLow -> "low"
      [] name = NameNormal -> "normal"
      [] name = NameWarning -> "warning"
      [] name = NameDanger -> "danger"

-----------------------------------------------------------------------------
(* C15 .. C20: the topic tree *)

\* The topics of the messages added since the last clear.
PublishedTopics == {m.topic : m \in published}

\* The paths of the nodes on the way to the end of a topic, the root's included.
PrefixPaths(topic) ==
    {join(SubSeq(TopicParts(topic), 1, k)) : k \in 0..Len(TopicParts(topic))}

NodesAt(path) == {position \in DOMAIN tree : tree[position].path = path}

\* C15: no path occurs at two nodes, and the nodes are exactly those on the way to
\* the topics published, one for each distinct prefix, so that topics share the
\* nodes of their common prefix; with a/b/c and a/b/d published (in either order,
\* and nothing but a/b or empty topics besides) there is exactly one node with
\* path a/b, its children are c and d, and it is an endpoint exactly if a message
\* was published to a/b.
C15_PrefixSharing ==
    /\ \A p, q \in DOMAIN tree : tree[p].path = tree[q].path => p = q
    /\ {tree[position].path : position \in DOMAIN tree}
          = UNION {PrefixPaths(topic) : topic \in PublishedTopics} \cup {EmptyString}
    /\ (/\ {TopicABC, TopicABD} \subseteq PublishedTopics
        /\ PublishedTopics \subseteq
              {TopicABC, TopicABD, TopicAB, EmptyString, TopicSlashes})
          => /\ Cardinality(NodesAt(TopicAB)) = 1
             /\ \A position \in NodesAt(TopicAB) :
                   /\ ChildKeys(tree, position) = {<<"c">>, <<"d">>}
                   /\ tree[position].isEndpoint <=> TopicAB \in PublishedTopics

\* a/b/d and then a/b/c have been published on an empty tree.
C15_Witness ==
    /\ PublishedTopics = {TopicABC, TopicABD}
    /\ treeStep.op = "addMessage"
    /\ treeStep.message.topic = TopicABC
    /\ msgCount = 2

\* C16: addMessage for a topic that was published before leaves the set of nodes,
\* every node's name, path and children keys and every other node's fields as they
\* were; the node at the end of the topic stays an endpoint and takes the payload
\* and the timestamp of the new message.
C16_IdempotentRepublish ==
    [][(/\ treeStep'.op = "addMessage"
        /\ msgCount' = msgCount + 1
        /\ treeStep'.message.topic \in PublishedTopics)
          => /\ DOMAIN tree' = DOMAIN tree
             /\ \A position \in DOMAIN tree :
                   /\ tree'[position].name = tree[position].name
                   /\ tree'[position].path = tree[position].path
                   /\ ChildKeys(tree', position) = ChildKeys(tree, position)
                   /\ IF tree[position].path = join(TopicParts(treeStep'.message.topic))
                      THEN /\ tree[position].isEndpoint
                           /\ tree'[position].isEndpoint
                           /\ tree'[position].value = <<treeStep'.message.message>>
                           /\ tree'[position].lastUpdated
                                 = <<treeStep'.message.timestamp>>
                      ELSE tree'[position] = tree[position]
      ]_vars

\* a/b, which has children, has been published a second time with another payload.
C16_Witness ==
    /\ treeStep.op = "addMessage"
    /\ treeStep.message.topic = TopicAB
    /\ TopicABC \in PublishedTopics
    /\ \E m \in published :
          /\ m.topic = TopicAB
          /\ m.message # treeStep.message.message
          /\ m.timestamp < treeStep.message.timestamp

\* C17: a node is an endpoint exactly if a message added since the last clear ends
\* at its path, and a node that is not an endpoint has neither value nor
\* lastUpdated.
C17_EndpointInvariant ==
    \A position \in DOMAIN tree :
        /\ tree[position].isEndpoint
              <=> \E m \in published : join(TopicParts(m.topic)) = tree[position].path
        /\ ~tree[position].isEndpoint
              => (tree[position].value = << >> /\ tree[position].lastUpdated = << >>)

\* a/b/c has been published and its prefixes a and a/b have only been passed.
C17_Witness ==
    /\ PublishedTopics = {TopicABC}
    /\ \E position \in DOMAIN tree :
          /\ tree[position].path = TopicAB
          /\ ~tree[position].isEndpoint
    /\ \E position \in DOMAIN tree :
          /\ tree[position].path = TopicABC
          /\ tree[position].isEndpoint

\* A topic without its leading, trailing and repeated separators.
RECURSIVE Collapse(_)
Collapse(s) ==
    IF s = << >> THEN << >>
    ELSE IF Head(s) = Slash /\ (Len(s) = 1 \/ s[2] = Slash) THEN Collapse(Tail(s))
    ELSE <<Head(s)>> \o Collapse(Tail(s))

Squeeze(s) ==
    IF Collapse(s) # << >> /\ Collapse(s)[1] = Slash
    THEN Tail(Collapse(s)) ELSE Collapse(s)

\* C19: addMessage with a topic that is empty or made of separators only creates
\* no node and changes only value, lastUpdated and isEndpoint of the root; and
\* addMessage with any topic ends at the node whose path is the topic without its
\* leading, trailing and repeated separators, and never creates a node with an
\* empty name.
C19_EmptyTopic ==
    [][(treeStep'.op = "addMessage" /\ msgCount' = msgCount + 1)
          => /\ (\A i \in 1..Len(treeStep'.message.topic) :
                    treeStep'.message.topic[i] = Slash)
                  => /\ DOMAIN tree' = DOMAIN tree
                     /\ \A position \in DOMAIN tree \ {<< >>} :
                           tree'[position] = tree[position]
                     /\ tree'[<< >>] =
                           [tree[<< >>] EXCEPT
                               !.value = <<treeStep'.message.message>>,
                               !.lastUpdated = <<treeStep'.message.timestamp>>,
                               !.isEndpoint = TRUE]
             /\ \E position \in DOMAIN tree' :
                   /\ tree'[position].path = Squeeze(treeStep'.message.topic)
                   /\ tree'[position].isEndpoint
                   /\ tree'[position].value = <<treeStep'.message.message>>
                   /\ tree'[position].lastUpdated = <<treeStep'.message.timestamp>>
             /\ \A position \in DOMAIN tree' \ {<< >>} :
                   tree'[position].name # EmptyString
      ]_vars

\* A topic of separators has been added to a tree that has nodes below the root,
\* and a/b has been addressed as /a//b/.
C19_Witness ==
    /\ treeStep.op = "addMessage"
    /\ treeStep.message.topic = TopicSlashes
    /\ tree[<< >>].value = <<treeStep.message.message>>
    /\ TopicMessy \in PublishedTopics
    /\ Cardinality(DOMAIN tree) = 3

\* C20: addMessage removes no node, leaves every endpoint an endpoint and every
\* node its name and path; every node's path is its chain of names from the root
\* joined by slashes; and clear leaves the root alone, not an endpoint, without
\* value.
C20_NodesNeverRemoved ==
    /\ [][
          /\ (treeStep'.op = "addMessage" /\ msgCount' = msgCount + 1) =>
                /\ DOMAIN tree \subseteq DOMAIN tree'
                /\ \A position \in DOMAIN tree :
                      /\ tree[position].isEndpoint => tree'[position].isEndpoint
                      /\ tree'[position].name = tree[position].name
                      /\ tree'[position].path = tree[position].path
          /\ (treeStep'.op = "clear") =>
                /\ DOMAIN tree' = {<< >>}
                /\ tree'[<< >>] = [name |-> RootName, path |-> EmptyString,
                                   value |-> << >>, lastUpdated |-> << >>,
                                   isEndpoint |-> FALSE]
       ]_vars
    /\ [](\A position \in DOMAIN tree :
             /\ \A k \in 0..Len(position) : SubSeq(position, 1, k) \in DOMAIN tree
             /\ tree[position].path =
                   join([k \in 1..Len(position) |->
                            tree[SubSeq(position, 1, k)].name]))

\* A third message has added nodes to a tree in which the endpoint of the first
\* message is still there.
C20_Witness ==
    /\ treeStep.op = "addMessage"
    /\ msgCount = 3
    /\ Cardinality(DOMAIN tree) = 5
    /\ \E position \in DOMAIN tree :
          /\ tree[position].isEndpoint
          /\ tree[position].lastUpdated = <<1>>

\* C18 as stated: once no run of the message effect is outstanding, every message
\* delivered has an endpoint node at its topic's path, and the value there is the
\* payload of the last message delivered for that topic.
C18_EveryMessageInTree ==
    ~effectDue =>
        \A k \in 1..Len(messagesRef) :
            \E position \in DOMAIN tree :
                /\ tree[position].path = join(TopicParts(messagesRef[k].topic))
                /\ tree[position].isEndpoint
                /\ \A j \in k..Len(messagesRef) :
                      (/\ messagesRef[j].topic = messagesRef[k].topic
                       /\ \A i \in (j + 1)..Len(messagesRef) :
                             messagesRef[i].topic # messagesRef[k].topic)
                        => tree[position].value = <<messagesRef[j].message>>

-----------------------------------------------------------------------------
(* The chart's rows *)

BothCardsSelected == SelectedCardIds = {IdTemp1, IdCard2}

\* C21: whatever the strategy, the setting and the selection, every row of the
\* chart has a value for every selected card; with temperature sampled at
\* minutes 0 and 1 and the other card at minute 0 only, both selected, the chart
\* has no row for minute 1.
C21_NoPartialRow ==
    Rendered =>
    /\ \A i \in 1..Len(chartData) :
          \A cardId \in SelectedCardIds : cardId \in DOMAIN chartData[i].value
    /\ (history = HistoryMissingRow /\ BothCardsSelected)
          => \A i \in 1..Len(chartData) : chartData[i].timestamp # Minute(1)

C21_Witness ==
    /\ Rendered
    /\ history = HistoryMissingRow
    /\ BothCardsSelected
    /\ averagingMethod = "interval"
    /\ dataAveraging = 2
    /\ Len(chartData) = 1
    /\ chartData[1].value[IdCard2] = Rat(Tenths(10))

\* The rows of data with index, counted from 0, in
\* [i - floor(W/2), i - floor(W/2) + W) and in [0, Len(data)).
StatedWindow(data, i, windowSize) ==
    SubSeq(data, MathMax(0, i - windowSize \div 2) + 1,
           MathMin(Len(data), i - windowSize \div 2 + windowSize))

\* C22: under the moving average with window W, the chart has a row for every
\* input row, and the value of each selected card at row i is the mean of the
\* card's values over the input rows with index in
\* [i - floor(W/2), i - floor(W/2) + W) and in [0, number of rows); with W = 1
\* the chart is the input.
C22_MovingWindow ==
    (Rendered /\ averagingMethod = "moving" /\ selectedCards # << >>)
        => /\ Len(chartData) = Len(filteredData)
           /\ dataAveraging = 1 => chartData = filteredData
           /\ \A i \in 1..Len(filteredData) : \A cardId \in SelectedCardIds :
                 chartData[i].value[cardId]
                    = Mean(CardValues(StatedWindow(filteredData, i - 1, dataAveraging),
                                      cardId))

\* The orders the rows of data can be given in.
Orders(data) ==
    { [i \in 1..Len(data) |-> data[p[i]]] : p \in Permutations(1..Len(data)) }

StrictlyAscending(rows) ==
    \A i \in 1..Len(rows) - 1 : rows[i].timestamp < rows[i + 1].timestamp

BucketFloor(timestamp, minutes) ==
    (timestamp \div (minutes * 60000)) * (minutes * 60000)

\* The rows of data in the bucket that starts at floor.
Bucket(data, floor, minutes) ==
    SelectSeq(data, LAMBDA row : BucketFloor(row.timestamp, minutes) = floor)

\* The floors of the buckets in which every selected card has a value.
FullBuckets(data, minutes) ==
    { floor \in {BucketFloor(data[i].timestamp, minutes) : i \in 1..Len(data)} :
         \A cardId \in SelectedCardIds :
            CardValues(Bucket(data, floor, minutes), cardId) # << >> }

\* C23: under the interval average of N > 1 minutes the chart has exactly one
\* row per bucket floor(timestamp / (N*60000)) * N*60000 in which every selected
\* card has a value, with the bucket's floor as timestamp and the mean of the
\* card's values in the bucket as value, in strictly ascending order of
\* timestamp, whatever the order of the input rows; with N = 1 the input is
\* returned as it is.
C23_IntervalAverage ==
    /\ \A data \in Orders(filteredData) : getIntervalAverage(data, 1) = data
    /\ (Rendered /\ averagingMethod = "interval" /\ dataAveraging > 1)
          => \A data \in Orders(filteredData) :
                LET out == getIntervalAverage(data, dataAveraging) IN
                /\ out = chartData
                /\ StrictlyAscending(out)
                /\ {out[i].timestamp : i \in 1..Len(out)}
                      = FullBuckets(filteredData, dataAveraging)
                /\ \A i \in 1..Len(out) : \A cardId \in SelectedCardIds :
                      out[i].value[cardId]
                         = Mean(CardValues(Bucket(filteredData, out[i].timestamp,
                                                  dataAveraging), cardId))

C23_Witness ==
    /\ Rendered
    /\ history = HistoryFour
    /\ BothCardsSelected
    /\ averagingMethod = "interval"
    /\ dataAveraging = 2
    /\ Len(chartData) = 2
    /\ chartData[1].timestamp = Minute(0)
    /\ chartData[2].value[IdCard2] = Rat(Tenths(35))

\* The k-th smallest of values.
KthSmallest(values, k) ==
    CHOOSE v \in {values[i] : i \in 1..Len(values)} :
        /\ Cardinality({i \in 1..Len(values) : RatLess(values[i], v)}) < k
        /\ k <= Cardinality({i \in 1..Len(values) : ~RatLess(v, values[i])})

\* The median in the usual sense.
StatedMedian(values) ==
    IF Len(values) % 2 = 1 THEN KthSmallest(values, (Len(values) + 1) \div 2)
    ELSE RatOver(RatAdd(KthSmallest(values, Len(values) \div 2),
                        KthSmallest(values, Len(values) \div 2 + 1)), 2)

\* C24: under the median of N > 1 minutes the chart has one row per bucket of
\* the interval average, and the value of each selected card is the median of
\* the card's values in the bucket: the middle one of an odd count, the mean
\* of the two central ones of an even count, whatever the order of the input;
\* the values 1, 2, 3, 4 give 2.5 and the values 1, 2, 3 give 2.
C24_Median ==
    /\ (Rendered /\ averagingMethod = "median" /\ dataAveraging > 1)
          => \A data \in Orders(filteredData) :
                LET out == getMedianData(data, dataAveraging) IN
                /\ out = chartData
                /\ {out[i].timestamp : i \in 1..Len(out)}
                      = FullBuckets(filteredData, dataAveraging)
                /\ \A i \in 1..Len(out) : \A cardId \in SelectedCardIds :
                      out[i].value[cardId]
                         = StatedMedian(CardValues(Bucket(filteredData,
                                                          out[i].timestamp,
                                                          dataAveraging), cardId))
    /\ (Rendered /\ averagingMethod = "median" /\ dataAveraging = 5
            /\ selectedCards = <<IdTemp1>> /\ history = HistoryFour)
          => chartData[1].value[IdTemp1] = Quotient(Tenths(5), 2)
    /\ (Rendered /\ averagingMethod = "median" /\ dataAveraging = 5
            /\ selectedCards = <<IdTemp1>> /\ history = HistoryThree)
          => chartData[1].value[IdTemp1] = Rat(Tenths(2))

C24_Witness ==
    /\ Rendered
    /\ history = HistoryFour
    /\ selectedCards = <<IdTemp1>>
    /\ averagingMethod = "median"
    /\ dataAveraging = 5
    /\ Len(chartData) = 1
    /\ chartData[1].value[IdTemp1] = Quotient(Tenths(5), 2)

\* C25: no rows in, no rows out, for the three strategies and every setting;
\* under the moving average with W > 1 a single input row is still a row of
\* the chart.
C25_EdgeCases ==
    /\ \A setting \in AveragingOptions :
          /\ getMovingAverage(<< >>, setting) = << >>
          /\ getIntervalAverage(<< >>, setting) = << >>
          /\ getMedianData(<< >>, setting) = << >>
    /\ (Rendered /\ filteredData = << >>) => chartData = << >>
    /\ (Rendered /\ averagingMethod = "moving" /\ dataAveraging > 1
            /\ Len(filteredData) = 1)
          => /\ Len(chartData) = 1
             /\ chartData[1].timestamp = filteredData[1].timestamp

C25_Witness ==
    /\ Rendered
    /\ averagingMethod = "moving"
    /\ dataAveraging = 5
    /\ Len(filteredData) = 1
    /\ Len(chartData) = 1
    /\ BothCardsSelected

-----------------------------------------------------------------------------
(* The category of a series *)

\* The keywords of the categories, in the order isValidSensorValue tries them.
CategoryKeywords ==
    << [category |-> "temperature", keywords |-> {KwOndo, KwTemp, KwTemperature}],
       [category |-> "humidity", keywords |-> {KwSeupdo, KwHumid, KwHumidity}],
       [category |-> "soil", keywords |-> {KwToyang, KwSubun, KwSoil, KwMoisture}],
       [category |-> "illuminance",
        keywords |-> {KwJodo, KwGwangryang, KwLight, KwLux}],
       [category |-> "co2", keywords |-> {KwCo2, KwIsanhwatanso}] >>

\* text contains one of the keywords, in any letter case.
ContainsKeyword(text, keywords) ==
    \E keyword \in keywords : includes(toLowerCase(text), keyword)

\* The first category of which the title or the identifier contains a keyword.
StatedCategory(cardId, cardTitle) ==
    LET matching == { i \in 1..Len(CategoryKeywords) :
                         \/ ContainsKeyword(cardTitle, CategoryKeywords[i].keywords)
                         \/ ContainsKeyword(cardId, CategoryKeywords[i].keywords) }
    IN  IF matching = {} THEN "other"
        ELSE CategoryKeywords[CHOOSE i \in matching : \A j \in matching : i <= j].category

\* C26: a series whose title or identifier contains a keyword of a category, in
\* any letter case, is validated with the range of that category.
C26_CategoryMatching ==
    vOut \in {"accepted", "rejected"} =>
        (vOut = "accepted"
            <=> StatedRange(StatedCategory(vIn.cardId, vIn.cardTitle), vIn.value))

-----------------------------------------------------------------------------
(* The points of the store *)

\* C28: from an empty store on, through addDataPoint, clearCardHistory and
\* clearHistory, every point stored under a key has that key as cardId, a finite
\* number as value that passes the plausibility check of its series, and a
\* timestamp that is not smaller than the timestamp of the point before it.
C28_StoredPoints ==
    histKind = "object" =>
        \A cardId \in DOMAIN history : \A i \in 1..Len(history[cardId]) :
            LET point == history[cardId][i] IN
            /\ point.cardId = cardId
            /\ IsNumberType(point.value) /\ ~isNaN(point.value) /\ isFinite(point.value)
            /\ isValidSensorValue(cardId, point.value, point.cardTitle)
            /\ i > 1 => history[cardId][i - 1].timestamp <= point.timestamp

\* A series holds two points taken at different times, after points of it had
\* been evicted or cleared.
C28_Witness ==
    /\ histKind = "object"
    /\ \E cardId \in DOMAIN history :
          /\ Len(history[cardId]) = 2
          /\ history[cardId][1].timestamp < history[cardId][2].timestamp
          /\ history[cardId][1].value # history[cardId][2].value
    /\ ret.op \in {"clearCardHistory", "addDataPoint"}

-----------------------------------------------------------------------------
(* The timers of the effects *)

CollectionIntervals == { t \in intervals : t.callback = "collectSensorData" }
RefreshIntervals == { t \in intervals : t.callback = "setLastUpdate" }

\* C27: at any time at most one interval of the collection effect is active, and
\* it is the one the last run of the effect has created; none is active once the
\* dashboard is unmounted, and no point reaches the store from then on.  The
\* same holds of the refresh interval of ChartView.
C27_TimerDisposal ==
    /\ [](/\ Cardinality(CollectionIntervals) <= 1
          /\ \A t \in CollectionIntervals : mounted /\ t.id = collectEffect.interval
          /\ Cardinality(RefreshIntervals) <= 1
          /\ \A t \in RefreshIntervals : chartMounted /\ t.id = refreshEffect.interval)
    /\ [][(~mounted) => (accepted' = accepted /\ history' = history)]_vars

\* The dashboard is unmounted after the collection effect had replaced its
\* first interval by a second one and points had been collected.
C27_Witness ==
    /\ ~mounted
    /\ collectEffect.interval > 1
    /\ CollectionIntervals = {}
    /\ DOMAIN accepted # {}

-----------------------------------------------------------------------------
(* What the collector appends, and when *)

LastMessage == messages[Len(messages)]

\* C29: a point is appended only when the dashboard is not initializing and
\* hasReceivedRealData is set; hasReceivedRealData is never reset; and the
\* message that sets it has not arrived during the initialization.
C29_CollectionGating ==
    [][/\ (accepted' # accepted) => (~isInitializing /\ hasReceivedRealData)
       /\ hasReceivedRealData => hasReceivedRealData'
       /\ (~hasReceivedRealData /\ hasReceivedRealData')
             => (LastMessage.timestamp \notin arrivedInitializing)]_vars

TopicBoundCards == { cards[i] : i \in { j \in 1..Len(cards) : cards[j].mqttTopic # EmptyString } }

\* C30: when a point is appended to the series of a card bound to a topic, a
\* message has been received on that topic, and the value of the point is the
\* payload of the last message received on it.
C30_NoSampleWithoutMessage ==
    [][\A card \in TopicBoundCards :
          (Len(SeriesOf(accepted', card.id)) > Len(SeriesOf(accepted, card.id)))
             => LET topicMessages ==
                        SelectSeq(messages, LAMBDA msg : msg.topic = card.mqttTopic)
                    series == SeriesOf(accepted', card.id)
                IN  /\ topicMessages # << >>
                    /\ series[Len(series)].value
                          = parseFloat(topicMessages[Len(topicMessages)].message)]_vars

====
